---- MODULE Spec2Model ----
(***************************************************************************)
(* Insha Un Nazm: the submission / review workflow.                        *)
(*                                                                         *)
(* The repository holds the React front end.  The pages keep a local copy  *)
(* of the poems they fetched and mirror every accepted request on it; the  *)
(* back end they call over /api is not part of the sources, so its         *)
(* endpoints (Srv... operators) follow the written specification.          *)
(*                                                                         *)
(* Ratings are counted in tenths of a star (4.5 stars is 45).  A nullable   *)
(* field is the empty sequence when null and <<v>> when it holds v.        *)
(***************************************************************************)
EXTENDS Integers, Sequences, FiniteSets, TLC

VARIABLES
    repo,       \* back end: poem id -> stored entry (the Entry Repository)
    nextId,     \* back end: id given to the next created entry
    api,        \* last answer to a rate, feature or araz request made outside the pages
    fp,         \* AdminFeaturedPoemPage, one per administrator session
    rp,         \* AdminReviewPage
    cp,         \* AdminPoemCheckingPage
    sf,         \* SubmitPoemPage
    catalog,    \* back end: the Verse Catalog
    vp,         \* AdminOpeningVersesPage
    gf,         \* the filter bar and grid of the administrators' poem pages
    vw,         \* ViewPoemsPage
    lb,         \* LeaderboardPage
    pd,         \* PoemDetails
    nav,        \* the session: the signed-in user and the route shown
    bp,         \* BestPoemPage
    auth,       \* AuthProvider, localStorage and the location of the browser
    vs          \* SubmitPoemPage: the language and its Matla

\* The pages around the review workflow.
\* The best poems, the stored session and the Matla of the submit page.
others == <<bp, auth, vs>>

more == <<catalog, vp, gf, vw, lb, pd, nav, others>>

vars == <<repo, nextId, api, fp, rp, cp, sf, more>>

---------------------------------------------------------------------------
(* Bounds *)

MaxPoems == 2          \* entries ever created
MaxText == 1           \* distinct araz texts an administrator types
MaxPad == 1            \* white space characters at either end of a typed text
MaxSlack == 1          \* typed lengths range this far around the minimum length

---------------------------------------------------------------------------
(* Values *)

None == <<>>
Some(v) == <<v>>

\* None of the pages around the review workflow is open.
MoreClosed ==
    /\ catalog = None
    /\ vp = None
    /\ gf = None
    /\ vw = None
    /\ lb = None
    /\ pd = None
    /\ nav = None
    /\ bp = None
    /\ auth = None
    /\ vs = None

Admins == {"admin1", "admin2"}
PoemIds == 1..MaxPoems
\* A timestamp is only ever tested for being set: one clock reading stands
\* for all of them.
Times == {1}
Texts == 1..MaxText

ARAZ_PENDING == "araz_pending"
ARAZ_DONE == "araz_done"

OK == "ok"
NotFound == "NotFound"
Conflict == "Conflict"
ValidationError == "ValidationError"
TransportError == "TransportError"

\* Ratings go from half a star to MaxStars stars in steps of half a star.
MaxStars == 5
ValidRatings == {5 * k : k \in 1..(2 * MaxStars)}
RateInputs == {45}

---------------------------------------------------------------------------
(* Sequence helpers: Array.prototype.map / filter / find *)

RECURSIVE SeqOfIds(_)
SeqOfIds(S) ==
    IF S = {} THEN <<>>
    ELSE LET m == CHOOSE x \in S : \A y \in S : x <= y
         IN  <<m>> \o SeqOfIds(S \ {m})

SeqMap(F(_), s) == [i \in 1..Len(s) |-> F(s[i])]

RECURSIVE SeqFilter(_, _)
SeqFilter(P(_), s) ==
    IF s = <<>> THEN <<>>
    ELSE IF P(Head(s)) THEN <<Head(s)>> \o SeqFilter(P, Tail(s))
         ELSE SeqFilter(P, Tail(s))

\* array.find(pred) || null
SeqFind(P(_), s) ==
    LET hits == SeqFilter(P, s)
    IN  IF hits = <<>> THEN None ELSE Some(Head(hits))

Range(s) == {s[i] : i \in 1..Len(s)}

---------------------------------------------------------------------------
(* Back end (from the written specification) *)

\* The state in which Submission Intake creates an entry.
NewEntry(id) ==
    [id |-> id, approved |-> FALSE, rating |-> None, status |-> ARAZ_PENDING,
     arazContent |-> None, featured |-> FALSE, featuredDate |-> None]

SrvSubmit(r, id) == [status |-> OK, repo |-> (id :> NewEntry(id)) @@ r]

\* Mutant: approve flips the flag.
SrvApprove_Toggle(r, id) ==
    IF id \notin DOMAIN r THEN [status |-> NotFound, repo |-> r]
    ELSE [status |-> OK, repo |-> [r EXCEPT ![id].approved = ~r[id].approved]]

\* approve(entryId): unapproved -> approved, a no-op when already approved.
SrvApprove(r, id) ==
    IF id \notin DOMAIN r THEN [status |-> NotFound, repo |-> r]
    ELSE [status |-> OK, repo |-> [r EXCEPT ![id].approved = TRUE]]

\* reject(entryId): removes the entry.
SrvReject(r, id) ==
    IF id \notin DOMAIN r THEN [status |-> NotFound, repo |-> r]
    ELSE [status |-> OK, repo |-> [i \in DOMAIN r \ {id} |-> r[i]]]

\* Mutant: rate without the approval requirement.
SrvRate_NoApprovalCheck(r, id, v) ==
    IF id \notin DOMAIN r THEN [status |-> NotFound, repo |-> r]
    ELSE IF v \notin ValidRatings THEN [status |-> ValidationError, repo |-> r]
    ELSE [status |-> OK, repo |-> [r EXCEPT ![id].rating = Some(v)]]

\* rate(entryId, value): requires approved and a value in {0.5, ..., 5.0}.
SrvRate(r, id, v) ==
    IF id \notin DOMAIN r THEN [status |-> NotFound, repo |-> r]
    ELSE IF ~r[id].approved THEN [status |-> Conflict, repo |-> r]
    ELSE IF v \notin ValidRatings THEN [status |-> ValidationError, repo |-> r]
    ELSE [status |-> OK, repo |-> [r EXCEPT ![id].rating = Some(v)]]

\* feature(entryId): requires approved; in one step clears the flag on the
\* entry that holds it and sets it on the target, stamped with the time.
\* unfeature(entryId): clears the flag on the target unconditionally.
SrvFeature(r, id, flag, now) ==
    IF id \notin DOMAIN r THEN [status |-> NotFound, repo |-> r]
    ELSE IF flag
    THEN IF ~r[id].approved THEN [status |-> Conflict, repo |-> r]
         ELSE [status |-> OK,
               repo |-> [i \in DOMAIN r |->
                           IF i = id
                           THEN [r[i] EXCEPT !.featured = TRUE,
                                             !.featuredDate = Some(now)]
                           ELSE [r[i] EXCEPT !.featured = FALSE,
                                             !.featuredDate = None]]]
    ELSE [status |-> OK,
          repo |-> [r EXCEPT ![id].featured = FALSE, ![id].featuredDate = None]]

\* status update: the araz toggle; touches the status alone.
SrvStatus(r, id, st) ==
    IF id \notin DOMAIN r THEN [status |-> NotFound, repo |-> r]
    ELSE [status |-> OK, repo |-> [r EXCEPT ![id].status = st]]

\* recordCorrection(entryId, correctedContent | fileRef): requires approved.
\* A corrected text is stored as the corrected content; a correction given
\* as a file alone leaves the stored text as it is.
SrvAraz(r, id, text) ==
    IF id \notin DOMAIN r THEN [status |-> NotFound, repo |-> r]
    ELSE IF ~r[id].approved THEN [status |-> Conflict, repo |-> r]
    ELSE [status |-> OK,
          repo |-> [r EXCEPT ![id].status = ARAZ_DONE,
                             ![id].arazContent =
                                 IF text = None THEN r[id].arazContent ELSE text]]

\* Sort key of "sortBy=rating&order=desc": unrated entries come last.
RatingKey(e) == IF e.rating = None THEN 0 ELSE e.rating[1]

RECURSIVE InsertByRating(_, _)
InsertByRating(e, s) ==
    IF s = <<>> THEN <<e>>
    ELSE IF RatingKey(Head(s)) >= RatingKey(e)
         THEN <<Head(s)>> \o InsertByRating(e, Tail(s))
         ELSE <<e>> \o s

RECURSIVE SortByRatingDesc(_)
SortByRatingDesc(s) ==
    IF s = <<>> THEN <<>>
    ELSE InsertByRating(Head(s), SortByRatingDesc(Tail(s)))

\* list(filters): the entries in insertion order that satisfy every filter
\* present in q; q.sortBy = "rating" orders them by rating, descending.
SrvList(r, q) ==
    LET all == SeqMap(LAMBDA i : r[i], SeqOfIds(DOMAIN r))
        Keep(e) == /\ (q.approved # None => e.approved = q.approved[1])
                   /\ (q.status # None => e.status = q.status[1])
        kept == SeqFilter(Keep, all)
    IN  IF q.sortBy = "rating" THEN SortByRatingDesc(kept) ELSE kept

---------------------------------------------------------------------------
(* AdminFeaturedPoemPage *)

\* fetchPoems: ApiPoem -> Poem.  A null rating becomes 0 (rating ?? 0), an
\* empty araz text becomes undefined (arazContent || undefined).
ToPoem(apiPoem) ==
    [id |-> apiPoem.id,
     approved |-> apiPoem.approved,
     rating |-> IF apiPoem.rating = None THEN Some(0) ELSE apiPoem.rating,
     status |-> apiPoem.status,
     arazContent |-> IF apiPoem.arazContent = Some(0) THEN None
                     ELSE apiPoem.arazContent,
     featured |-> apiPoem.featured,
     featuredDate |-> apiPoem.featuredDate]

FpClosed ==
    [pc |-> "closed", poems |-> <<>>, featuredPoem |-> None, loading |-> FALSE,
     error |-> None, target |-> None, resp |-> None]

\* Mutant: the list is requested without the approved filter.
FeaturedPageQuery_AllPoems == [approved |-> None, status |-> None, sortBy |-> "rating"]

\* GET /api/poems?approved=true&sortBy=rating&order=desc
FeaturedPageQuery == [approved |-> Some(TRUE), status |-> None, sortBy |-> "rating"]

\* Mutant: the feature request carries featured: false.
FeatureRequest_FlagOff(poemId) == [id |-> poemId, featured |-> FALSE]

\* PATCH /api/poems/{poemId}/feature { featured: true }
FeatureRequest(poemId) == [id |-> poemId, featured |-> TRUE]

\* PATCH /api/poems/{featuredPoem.id}/feature { featured: false }
UnfeatureRequest(featuredPoem) == [id |-> featuredPoem.id, featured |-> FALSE]

\* Mutant: the other poems keep their featured flag.
FeatureLocal_KeepFlags(poems, poemId, now) ==
    SeqMap(LAMBDA poem : IF poem.id = poemId
                         THEN [poem EXCEPT !.featured = TRUE,
                                           !.featuredDate = Some(now)]
                         ELSE [poem EXCEPT !.featuredDate = None],
           poems)

\* Mutant: the other poems keep their featured date.
FeatureLocal_KeepDates(poems, poemId, now) ==
    SeqMap(LAMBDA poem : [poem EXCEPT
                            !.featured = (poem.id = poemId),
                            !.featuredDate = IF poem.id = poemId THEN Some(now)
                                             ELSE poem.featuredDate],
           poems)

\* handleFeaturePoem, after the request succeeded: the local poems.
FeatureLocal(poems, poemId, now) ==
    SeqMap(LAMBDA poem : [poem EXCEPT
                            !.featured = (poem.id = poemId),
                            !.featuredDate = IF poem.id = poemId THEN Some(now)
                                             ELSE None],
           poems)

\* Mutant: the poems are left as they are.
UnfeatureLocal_KeepsFlag(poems) == poems

\* handleUnfeaturePoem, after the request succeeded: the local poems.
UnfeatureLocal(poems) ==
    SeqMap(LAMBDA poem : [poem EXCEPT !.featured = FALSE, !.featuredDate = None],
           poems)

\* The page shows its buttons when it is neither loading nor in error.
FpReady(a) == fp[a].pc = "idle" /\ ~fp[a].loading /\ fp[a].error = None

\* The page is opened: the fetchPoems effect starts.
FP_Open(a) ==
    /\ fp[a].pc = "closed"
    /\ fp' = [fp EXCEPT ![a] = [FpClosed EXCEPT !.pc = "fetching", !.loading = TRUE]]
    /\ UNCHANGED <<repo, nextId, api, rp, cp, sf, more>>

\* fetchPoems: the list arrives.
FP_FetchOk(a) ==
    /\ fp[a].pc = "fetching"
    /\ LET formattedPoems == SeqMap(ToPoem, SrvList(repo, FeaturedPageQuery))
       IN  fp' = [fp EXCEPT ![a].poems = formattedPoems,
                            ![a].featuredPoem =
                                SeqFind(LAMBDA poem : poem.featured, formattedPoems),
                            ![a].loading = FALSE,
                            ![a].pc = "idle"]
    /\ UNCHANGED <<repo, nextId, api, rp, cp, sf, more>>

\* fetchPoems: the request fails.
FP_FetchFail(a) ==
    /\ fp[a].pc = "fetching"
    /\ fp' = [fp EXCEPT ![a].error = Some("Failed to load approved poems."),
                        ![a].loading = FALSE,
                        ![a].pc = "idle"]
    /\ UNCHANGED <<repo, nextId, api, rp, cp, sf, more>>

\* The page is left or reloaded (the Retry button of the error screen).
FP_Reload(a) ==
    /\ fp[a].pc = "idle"
    /\ fp' = [fp EXCEPT ![a] = FpClosed]
    /\ UNCHANGED <<repo, nextId, api, rp, cp, sf, more>>

\* handleFeaturePoem(poemId), up to the await: offered on poems not featured.
FP_Feature(a, poemId) ==
    /\ FpReady(a)
    /\ \E i \in 1..Len(fp[a].poems) :
          fp[a].poems[i].id = poemId /\ ~fp[a].poems[i].featured
    /\ fp' = [fp EXCEPT ![a].loading = TRUE,
                        ![a].pc = "featuring",
                        ![a].target = Some(FeatureRequest(poemId)),
                        ![a].resp = None]
    /\ UNCHANGED <<repo, nextId, api, rp, cp, sf, more>>

\* handleUnfeaturePoem, up to the await: needs a current featured poem.
FP_Unfeature(a) ==
    /\ FpReady(a)
    /\ fp[a].featuredPoem # None
    /\ fp' = [fp EXCEPT ![a].loading = TRUE,
                        ![a].pc = "unfeaturing",
                        ![a].target = Some(UnfeatureRequest(fp[a].featuredPoem[1])),
                        ![a].resp = None]
    /\ UNCHANGED <<repo, nextId, api, rp, cp, sf, more>>

\* The back end handles the PATCH of session a.
FP_ServerHandles(a) ==
    /\ fp[a].pc \in {"featuring", "unfeaturing"}
    /\ fp[a].resp = None
    /\ \E now \in Times :
          LET req == fp[a].target[1]
              out == SrvFeature(repo, req.id, req.featured, now)
          IN  /\ repo' = out.repo
              /\ fp' = [fp EXCEPT ![a].resp = Some(out.status)]
    /\ UNCHANGED <<nextId, api, rp, cp, sf, more>>

\* handleFeaturePoem, after the await succeeded.
FP_FeatureDone(a) ==
    /\ fp[a].pc = "featuring"
    /\ fp[a].resp = Some(OK)
    /\ \E now \in Times :
          LET poemId == fp[a].target[1].id
              updatedPoems == FeatureLocal(fp[a].poems, poemId, now)
          IN  fp' = [fp EXCEPT ![a].poems = updatedPoems,
                               ![a].featuredPoem =
                                   SeqFind(LAMBDA poem : poem.id = poemId, updatedPoems),
                               ![a].loading = FALSE,
                               ![a].pc = "idle",
                               ![a].target = None,
                               ![a].resp = None]
    /\ UNCHANGED <<repo, nextId, api, rp, cp, sf, more>>

\* handleUnfeaturePoem, after the await succeeded.
FP_UnfeatureDone(a) ==
    /\ fp[a].pc = "unfeaturing"
    /\ fp[a].resp = Some(OK)
    /\ fp' = [fp EXCEPT ![a].poems = UnfeatureLocal(fp[a].poems),
                        ![a].featuredPoem = None,
                        ![a].loading = FALSE,
                        ![a].pc = "idle",
                        ![a].target = None,
                        ![a].resp = None]
    /\ UNCHANGED <<repo, nextId, api, rp, cp, sf, more>>

\* Either handler's catch: the back end refused, or the request or its
\* response was lost on the way.
FP_PatchFailed(a) ==
    /\ fp[a].pc \in {"featuring", "unfeaturing"}
    /\ fp' = [fp EXCEPT ![a].error =
                            Some(IF fp[a].pc = "featuring"
                                 THEN "Failed to feature Nazm."
                                 ELSE "Failed to unfeature Nazm."),
                        ![a].loading = FALSE,
                        ![a].pc = "idle",
                        ![a].target = None,
                        ![a].resp = None]
    /\ UNCHANGED <<repo, nextId, api, rp, cp, sf, more>>

---------------------------------------------------------------------------
(* AdminReviewPage *)

RpClosed ==
    [pc |-> "closed", poems |-> <<>>, selectedPoemId |-> None,
     statusFilter |-> "pending", showRatingModal |-> FALSE, currentRating |-> 0,
     loading |-> TRUE, error |-> None, req |-> None, resp |-> None]

StatusFilters == {"pending", "approved", "all"}

\* GET /api/poems with the status parameter computed from statusFilter.
ReviewPageQuery(statusFilter) ==
    [approved |-> None,
     status |-> IF statusFilter = "pending" THEN Some(ARAZ_PENDING)
                ELSE IF statusFilter = "approved" THEN Some(ARAZ_DONE)
                ELSE None,
     sortBy |-> "none"]

\* const selectedPoem = selectedPoemId ? poems.find(...) : null
RpSelectedPoem ==
    IF rp.selectedPoemId = None THEN None
    ELSE SeqFind(LAMBDA poem : poem.id = rp.selectedPoemId[1], rp.poems)

RpIds == {rp.poems[i].id : i \in 1..Len(rp.poems)}

RpPoem(id) == SeqFind(LAMBDA poem : poem.id = id, rp.poems)[1]

\* The grid is shown (no loading or error screen) and no modal covers it.
RpGrid ==
    /\ rp.pc = "idle" /\ ~rp.loading /\ rp.error = None
    /\ RpSelectedPoem = None

\* The details modal (PoemDetails) is shown.
RpDetails ==
    /\ rp.pc = "idle" /\ ~rp.loading /\ rp.error = None
    /\ RpSelectedPoem # None /\ ~rp.showRatingModal

\* The rating modal is shown.
RpRating ==
    /\ rp.pc = "idle" /\ ~rp.loading /\ rp.error = None
    /\ RpSelectedPoem # None /\ rp.showRatingModal

\* The page is opened: the fetchPoems effect starts.
RP_Open ==
    /\ rp.pc = "closed"
    /\ rp' = [RpClosed EXCEPT !.pc = "fetching"]
    /\ UNCHANGED <<repo, nextId, api, fp, cp, sf, more>>

\* fetchPoems: the list arrives.
RP_FetchOk ==
    /\ rp.pc = "fetching"
    /\ rp' = [rp EXCEPT !.poems = SeqMap(ToPoem,
                                         SrvList(repo, ReviewPageQuery(rp.statusFilter))),
                        !.loading = FALSE,
                        !.pc = "idle"]
    /\ UNCHANGED <<repo, nextId, api, fp, cp, sf, more>>

\* fetchPoems: the request fails.
RP_FetchFail ==
    /\ rp.pc = "fetching"
    /\ rp' = [rp EXCEPT !.error = Some("Failed to fetch poems. Please try again."),
                        !.loading = FALSE,
                        !.pc = "idle"]
    /\ UNCHANGED <<repo, nextId, api, fp, cp, sf, more>>

\* The page is left or reloaded (the Retry button of the error screen).
RP_Reload ==
    /\ rp.pc = "idle"
    /\ rp' = RpClosed
    /\ UNCHANGED <<repo, nextId, api, fp, cp, sf, more>>

\* The status filter is changed: the fetchPoems effect runs again (the
\* reply is taken before the next click).
RP_SetStatusFilter(f) ==
    /\ RpGrid
    /\ f # rp.statusFilter
    /\ rp' = [rp EXCEPT !.statusFilter = f, !.pc = "fetching"]
    /\ UNCHANGED <<repo, nextId, api, fp, cp, sf, more>>

\* View Details / a click on the card.
RP_Select(id) ==
    /\ RpGrid
    /\ id \in RpIds
    /\ rp' = [rp EXCEPT !.selectedPoemId = Some(id)]
    /\ UNCHANGED <<repo, nextId, api, fp, cp, sf, more>>

\* PoemDetails onClose.
RP_CloseDetails ==
    /\ RpDetails
    /\ rp' = [rp EXCEPT !.selectedPoemId = None]
    /\ UNCHANGED <<repo, nextId, api, fp, cp, sf, more>>

\* The request handleApprove sends: PUT /api/poems/{selectedPoemId}/approve
ApproveRequest(selectedPoemId) == [op |-> "approve", id |-> selectedPoemId, rating |-> 0]

\* Mutant: the Reject button asks for the approval.
RejectRequest_Approves(selectedPoemId) == ApproveRequest(selectedPoemId)

\* The request handleReject sends: DELETE /api/poems/{selectedPoemId}
RejectRequest(selectedPoemId) == [op |-> "reject", id |-> selectedPoemId, rating |-> 0]

\* The request handleRatePoem sends: PUT /api/poems/{selectedPoemId}/rate
RateRequest(selectedPoemId, currentRating) ==
    [op |-> "rate", id |-> selectedPoemId, rating |-> currentRating]

\* The Approve button of a card, shown on unapproved poems:
\* setSelectedPoemId(poem.id); await handleApprove().  handleApprove reads
\* the selectedPoemId of the render the click happened in.
RP_CardApprove(id) ==
    /\ RpGrid
    /\ id \in RpIds
    /\ ~RpPoem(id).approved
    /\ rp' = IF rp.selectedPoemId = None
             THEN [rp EXCEPT !.selectedPoemId = Some(id)]
             ELSE [rp EXCEPT !.selectedPoemId = Some(id),
                             !.pc = "approving",
                             !.req = Some(ApproveRequest(rp.selectedPoemId[1])),
                             !.resp = None]
    /\ UNCHANGED <<repo, nextId, api, fp, cp, sf, more>>

\* handleApprove from PoemDetails (offered on unapproved poems), up to the
\* first await.
RP_Approve ==
    /\ RpDetails
    /\ ~RpSelectedPoem[1].approved
    /\ rp' = [rp EXCEPT !.pc = "approving",
                        !.req = Some(ApproveRequest(rp.selectedPoemId[1])),
                        !.resp = None]
    /\ UNCHANGED <<repo, nextId, api, fp, cp, sf, more>>

\* handleReject from PoemDetails (offered on unapproved poems), up to the
\* first await.
RP_Reject ==
    /\ RpDetails
    /\ ~RpSelectedPoem[1].approved
    /\ rp' = [rp EXCEPT !.pc = "rejecting",
                        !.req = Some(RejectRequest(rp.selectedPoemId[1])),
                        !.resp = None]
    /\ UNCHANGED <<repo, nextId, api, fp, cp, sf, more>>

\* openRatingModal(poemId): what it sets.
OpenRatingModal(poems, poemId) ==
    LET poem == SeqFind(LAMBDA p : p.id = poemId, poems)
    IN  IF poem = None \/ ~poem[1].approved
        THEN [error |-> Some("Cannot rate an unapproved poem."),
              selectedPoemId |-> None, currentRating |-> 0,
              showRatingModal |-> FALSE]
        ELSE [error |-> None, selectedPoemId |-> Some(poemId),
              currentRating |-> poem[1].rating[1], showRatingModal |-> TRUE]

\* The Rate button of a card: disabled={!poem.approved}
RateButtonEnabled(poem) == poem.approved

\* The Rate button of a card calls openRatingModal(poem.id).
RP_OpenRatingModal(id) ==
    /\ RpGrid
    /\ id \in RpIds
    /\ RateButtonEnabled(RpPoem(id))
    /\ LET set == OpenRatingModal(rp.poems, id)
       IN  rp' = [rp EXCEPT !.error = set.error,
                            !.selectedPoemId = set.selectedPoemId,
                            !.currentRating = set.currentRating,
                            !.showRatingModal = set.showRatingModal]
    /\ UNCHANGED <<repo, nextId, api, fp, cp, sf, more>>

\* handleStarClick(rating)
RP_StarClick(rating) ==
    /\ RpRating
    /\ rp' = [rp EXCEPT !.currentRating = rating]
    /\ UNCHANGED <<repo, nextId, api, fp, cp, sf, more>>

\* The Cancel button of the rating modal.
RP_CancelRating ==
    /\ RpRating
    /\ rp' = [rp EXCEPT !.showRatingModal = FALSE, !.currentRating = 0,
                        !.selectedPoemId = None]
    /\ UNCHANGED <<repo, nextId, api, fp, cp, sf, more>>

\* handleRatePoem (Save Rating, enabled once a rating is chosen), up to the
\* first await.
RP_RatePoem ==
    /\ RpRating
    /\ rp.currentRating # 0
    /\ rp' = [rp EXCEPT !.pc = "rating",
                        !.req = Some(RateRequest(rp.selectedPoemId[1], rp.currentRating)),
                        !.resp = None]
    /\ UNCHANGED <<repo, nextId, api, fp, cp, sf, more>>

\* The back end handles the page's approve, reject or rate request.
RP_ServerHandles ==
    /\ rp.pc \in {"approving", "rejecting", "rating"}
    /\ rp.resp = None
    /\ LET req == rp.req[1]
           out == IF req.op = "approve" THEN SrvApprove(repo, req.id)
                  ELSE IF req.op = "reject" THEN SrvReject(repo, req.id)
                  ELSE SrvRate(repo, req.id, req.rating)
       IN  /\ repo' = out.repo
           /\ rp' = [rp EXCEPT !.resp = Some(out.status)]
    /\ UNCHANGED <<nextId, api, fp, cp, sf, more>>

\* handleApprove / handleReject / handleRatePoem after the request
\* succeeded: the poems are fetched again and the selection is dropped.
RP_Refetched ==
    /\ rp.pc \in {"approving", "rejecting", "rating"}
    /\ rp.resp = Some(OK)
    /\ rp' = [rp EXCEPT !.poems = SeqMap(ToPoem,
                                         SrvList(repo, ReviewPageQuery(rp.statusFilter))),
                        !.selectedPoemId = None,
                        !.showRatingModal =
                            IF rp.pc = "rating" THEN FALSE ELSE rp.showRatingModal,
                        !.currentRating =
                            IF rp.pc = "rating" THEN 0 ELSE rp.currentRating,
                        !.pc = "idle",
                        !.req = None,
                        !.resp = None]
    /\ UNCHANGED <<repo, nextId, api, fp, cp, sf, more>>

\* The handlers' catch: the back end refused, or one of the two requests
\* or its response was lost on the way.
RP_RequestFailed ==
    /\ rp.pc \in {"approving", "rejecting", "rating"}
    /\ rp' = [rp EXCEPT !.error =
                            Some(IF rp.pc = "approving"
                                 THEN "Failed to approve poem. Please try again."
                                 ELSE IF rp.pc = "rejecting"
                                 THEN "Failed to reject poem. Please try again."
                                 ELSE "Failed to rate poem. Please try again."),
                        !.pc = "idle",
                        !.req = None,
                        !.resp = None]
    /\ UNCHANGED <<repo, nextId, api, fp, cp, sf, more>>

---------------------------------------------------------------------------
(* AdminPoemCheckingPage *)

\* The araz text typed in the modal: 0 is the empty text.
ArazInputs == {0} \cup Texts

CpClosed ==
    [pc |-> "closed", poems |-> <<>>, selectedPoemId |-> None,
     showArazUploadModal |-> FALSE, arazContent |-> 0, selectedFile |-> FALSE,
     loading |-> FALSE, error |-> None, req |-> None, resp |-> None]

\* GET /api/poems { approved: true, page: 1, perPage: 100 }
CheckingPageQuery == [approved |-> Some(TRUE), status |-> None, sortBy |-> "none"]

\* const selectedPoem = selectedPoemId ? poems.find(...) : null
CpSelectedPoem ==
    IF cp.selectedPoemId = None THEN None
    ELSE SeqFind(LAMBDA poem : poem.id = cp.selectedPoemId[1], cp.poems)

CpIds == {cp.poems[i].id : i \in 1..Len(cp.poems)}

CpPoem(id) == SeqFind(LAMBDA poem : poem.id = id, cp.poems)[1]

\* The grid is shown (no loading or error screen) and no modal covers it.
CpGrid ==
    /\ cp.pc = "idle" /\ ~cp.loading /\ cp.error = None
    /\ CpSelectedPoem = None

\* The araz upload modal is shown.
CpUploadModal ==
    /\ cp.pc = "idle" /\ ~cp.loading /\ cp.error = None
    /\ CpSelectedPoem # None /\ cp.showArazUploadModal

\* The page is opened: the fetchPoems effect starts.
CP_Open ==
    /\ cp.pc = "closed"
    /\ cp' = [CpClosed EXCEPT !.pc = "fetching", !.loading = TRUE]
    /\ UNCHANGED <<repo, nextId, api, fp, rp, sf, more>>

\* fetchPoems: the list arrives.
CP_FetchOk ==
    /\ cp.pc = "fetching"
    /\ cp' = [cp EXCEPT !.poems = SeqMap(ToPoem, SrvList(repo, CheckingPageQuery)),
                        !.loading = FALSE,
                        !.pc = "idle"]
    /\ UNCHANGED <<repo, nextId, api, fp, rp, sf, more>>

\* fetchPoems: the request fails.
CP_FetchFail ==
    /\ cp.pc = "fetching"
    /\ cp' = [cp EXCEPT !.error =
                            Some("Failed to load approved Nazms. Check console for details."),
                        !.loading = FALSE,
                        !.pc = "idle"]
    /\ UNCHANGED <<repo, nextId, api, fp, rp, sf, more>>

\* The page is left or reloaded (the Retry button of the error screen).
CP_Reload ==
    /\ cp.pc = "idle"
    /\ cp' = CpClosed
    /\ UNCHANGED <<repo, nextId, api, fp, rp, sf, more>>

\* The Upload Araz Version button of a card.
CP_OpenUpload(id) ==
    /\ CpGrid
    /\ id \in CpIds
    /\ cp' = [cp EXCEPT !.selectedPoemId = Some(id),
                        !.arazContent = IF CpPoem(id).arazContent = None THEN 0
                                        ELSE CpPoem(id).arazContent[1],
                        !.showArazUploadModal = TRUE]
    /\ UNCHANGED <<repo, nextId, api, fp, rp, sf, more>>

\* The textarea of the modal: setArazContent(e.target.value)
CP_TypeAraz(text) ==
    /\ CpUploadModal
    /\ cp' = [cp EXCEPT !.arazContent = text]
    /\ UNCHANGED <<repo, nextId, api, fp, rp, sf, more>>

\* handleFileChange
CP_ChooseFile ==
    /\ CpUploadModal
    /\ cp' = [cp EXCEPT !.selectedFile = TRUE]
    /\ UNCHANGED <<repo, nextId, api, fp, rp, sf, more>>

\* The Cancel button of the modal.
CP_CancelUpload ==
    /\ CpUploadModal
    /\ cp' = [cp EXCEPT !.showArazUploadModal = FALSE, !.arazContent = 0,
                        !.selectedFile = FALSE, !.selectedPoemId = None]
    /\ UNCHANGED <<repo, nextId, api, fp, rp, sf, more>>

\* Mutant: the araz text is left out of the form data.
ArazRequest_NoText(selectedPoemId, arazContent, selectedFile) ==
    [op |-> "araz", id |-> selectedPoemId, status |-> ARAZ_DONE,
     text |-> None, file |-> selectedFile]

\* POST /api/poems/{selectedPoemId}/araz: araz_content when the text is not
\* blank, araz_file when a file is chosen.
ArazRequest(selectedPoemId, arazContent, selectedFile) ==
    [op |-> "araz", id |-> selectedPoemId, status |-> ARAZ_DONE,
     text |-> IF arazContent # 0 THEN Some(arazContent) ELSE None,
     file |-> selectedFile]

\* PUT /api/poems/{poemId}/status { status: newStatus }
StatusRequest(poemId, newStatus) ==
    [op |-> "status", id |-> poemId, status |-> newStatus,
     text |-> None, file |-> FALSE]

\* Mutant: the araz text is stored without the status.
ArazLocal_KeepStatus(poems, selectedPoemId, arazContent) ==
    SeqMap(LAMBDA poem : IF poem.id = selectedPoemId
                         THEN [poem EXCEPT !.arazContent = Some(arazContent)]
                         ELSE poem,
           poems)

\* handleArazUpload, after the request succeeded: the local poems.
ArazLocal(poems, selectedPoemId, arazContent) ==
    SeqMap(LAMBDA poem : IF poem.id = selectedPoemId
                         THEN [poem EXCEPT !.arazContent = Some(arazContent),
                                           !.status = ARAZ_DONE]
                         ELSE poem,
           poems)

\* Mutant: the status update drops the araz text.
StatusLocal_ClearsAraz(poems, poemId, newStatus) ==
    SeqMap(LAMBDA poem : IF poem.id = poemId
                         THEN [poem EXCEPT !.status = newStatus,
                                           !.arazContent = None]
                         ELSE poem,
           poems)

\* handleStatusUpdate, after the request succeeded: the local poems.
StatusLocal(poems, poemId, newStatus) ==
    SeqMap(LAMBDA poem : IF poem.id = poemId
                         THEN [poem EXCEPT !.status = newStatus]
                         ELSE poem,
           poems)

\* handleArazUpload (Upload, enabled once a text or a file is given), up to
\* the await; it stops with an error when the poem is not approved.
CP_Upload ==
    /\ CpUploadModal
    /\ cp.arazContent # 0 \/ cp.selectedFile
    /\ cp' = IF ~CpSelectedPoem[1].approved
             THEN [cp EXCEPT !.error =
                       Some("Cannot upload araz version. Nazm must be approved first.")]
             ELSE [cp EXCEPT !.loading = TRUE,
                             !.pc = "uploading",
                             !.req = Some(ArazRequest(cp.selectedPoemId[1],
                                                      cp.arazContent, cp.selectedFile)),
                             !.resp = None]
    /\ UNCHANGED <<repo, nextId, api, fp, rp, sf, more>>

\* The status button of a card: handleStatusUpdate(poem.id, newStatus), up
\* to the await.
CP_ToggleStatus(id) ==
    /\ CpGrid
    /\ id \in CpIds
    /\ LET newStatus == IF CpPoem(id).status = ARAZ_DONE THEN ARAZ_PENDING
                        ELSE ARAZ_DONE
       IN  cp' = [cp EXCEPT !.loading = TRUE,
                            !.pc = "updating",
                            !.req = Some(StatusRequest(id, newStatus)),
                            !.resp = None]
    /\ UNCHANGED <<repo, nextId, api, fp, rp, sf, more>>

\* The back end handles the page's araz or status request.
CP_ServerHandles ==
    /\ cp.pc \in {"uploading", "updating"}
    /\ cp.resp = None
    /\ LET req == cp.req[1]
           out == IF req.op = "araz" THEN SrvAraz(repo, req.id, req.text)
                  ELSE SrvStatus(repo, req.id, req.status)
       IN  /\ repo' = out.repo
           /\ cp' = [cp EXCEPT !.resp = Some(out.status)]
    /\ UNCHANGED <<nextId, api, fp, rp, sf, more>>

\* handleStatusUpdate, after the await succeeded.
CP_StatusDone ==
    /\ cp.pc = "updating"
    /\ cp.resp = Some(OK)
    /\ cp' = [cp EXCEPT !.poems = StatusLocal(cp.poems, cp.req[1].id, cp.req[1].status),
                        !.loading = FALSE,
                        !.pc = "idle",
                        !.req = None,
                        !.resp = None]
    /\ UNCHANGED <<repo, nextId, api, fp, rp, sf, more>>

\* handleArazUpload, after the await succeeded.
CP_UploadDone ==
    /\ cp.pc = "uploading"
    /\ cp.resp = Some(OK)
    /\ cp' = [cp EXCEPT !.poems = ArazLocal(cp.poems, cp.selectedPoemId[1],
                                            cp.arazContent),
                        !.showArazUploadModal = FALSE,
                        !.arazContent = 0,
                        !.selectedFile = FALSE,
                        !.selectedPoemId = None,
                        !.loading = FALSE,
                        !.pc = "idle",
                        !.req = None,
                        !.resp = None]
    /\ UNCHANGED <<repo, nextId, api, fp, rp, sf, more>>

\* Either handler's catch: the back end refused, or the request or its
\* response was lost on the way.
CP_RequestFailed ==
    /\ cp.pc \in {"uploading", "updating"}
    /\ cp' = [cp EXCEPT !.error =
                            Some(IF cp.pc = "uploading"
                                 THEN "Failed to upload araz version."
                                 ELSE "Failed to update status."),
                        !.loading = FALSE,
                        !.pc = "idle",
                        !.req = None,
                        !.resp = None]
    /\ UNCHANGED <<repo, nextId, api, fp, rp, sf, more>>

---------------------------------------------------------------------------
(* SubmitPoemPage *)

\* A text is modelled by its length in three runs: leading white space, the
\* part from the first to the last character that is not white space, and
\* trailing white space.  A blank text has core 0.
MinContentLength == 20
Contents ==
    [lead : 0..MaxPad,
     core : {0} \cup ((MinContentLength - MaxSlack)..(MinContentLength + MaxSlack)),
     trail : 0..MaxPad]

EmptyText == [lead |-> 0, core |-> 0, trail |-> 0]

\* String.prototype.trim
Trim(text) ==
    IF text.core = 0 THEN EmptyText
    ELSE [lead |-> 0, core |-> text.core, trail |-> 0]

\* string.length
Length(text) == text.lead + text.core + text.trail

PoemTypes == {"individual", "full"}
Languages == {"English", "French", "Arabic", "Lisan al-Dawah", "Urdu"}
Methods == {"upload", "recording", "manual"}
Verses == {"v1"}

\* Submission Intake (from the written specification): the constraints of
\* submit, then the creation of the entry.
SrvIntake(r, id, req) ==
    IF req.inspiredBy \notin Verses
    THEN [status |-> NotFound, field |-> "inspiredByVerseId", repo |-> r]
    ELSE IF req.submissionMethod = "manual"
            /\ Length(Trim(req.content)) < MinContentLength
    THEN [status |-> ValidationError, field |-> "content", repo |-> r]
    ELSE IF req.submissionMethod = "upload" /\ ~req.file
    THEN [status |-> ValidationError, field |-> "file", repo |-> r]
    ELSE IF req.submissionMethod = "recording" /\ req.type # "individual"
    THEN [status |-> ValidationError, field |-> "kind", repo |-> r]
    ELSE IF req.submissionMethod = "recording" /\ ~req.audio
    THEN [status |-> ValidationError, field |-> "audio", repo |-> r]
    ELSE [status |-> OK, field |-> "", repo |-> SrvSubmit(r, id).repo]

\* What Submission Intake keeps of the payload of an accepted submit: the
\* part that goes with the method, whatever else the request carries.
IntakePayload(req) ==
    [submissionMethod |-> req.submissionMethod,
     content |-> req.submissionMethod = "manual",
     fileRef |-> req.submissionMethod = "upload",
     audioRef |-> req.submissionMethod = "recording"]

SfInit ==
    [pc |-> "idle", poemType |-> None, language |-> "English",
     inspiredByVerse |-> None,
     submissionMethod |-> None, content |-> EmptyText, selectedFile |-> FALSE,
     audioFile |-> FALSE, submitSuccess |-> FALSE, loading |-> FALSE,
     error |-> None, errors |-> {}, req |-> None, resp |-> None]

\* Mutant: the length is taken of the text as typed.
TooShort_NoTrim(content) == Length(content) < MinContentLength

\* content.trim().length < 20
TooShort(content) == Length(Trim(content)) < MinContentLength

\* validateForm: the errors it finds, as (field, message) pairs.
ValidateForm(f) ==
    (IF f.inspiredByVerse = None
     THEN {<<"verse", "Please select a Matla for your Nazm">>} ELSE {})
    \cup
    (IF f.submissionMethod = Some("manual") /\ Length(Trim(f.content)) = 0
     THEN {<<"content", "Nazm content is required">>}
     ELSE IF f.submissionMethod = Some("manual") /\ TooShort(f.content)
     THEN {<<"content", "Nazm is too short (minimum 20 characters)">>}
     ELSE {})
    \cup
    (IF f.submissionMethod = Some("upload") /\ ~f.selectedFile
     THEN {<<"file", "Please select a file to upload">>} ELSE {})
    \cup
    (IF f.submissionMethod = Some("recording") /\ ~f.audioFile
     THEN {<<"audio", "Please select an audio file to upload">>} ELSE {})

\* Mutant: the request also says that the entry is approved.
SubmitRequest_Approved(f) ==
    [type |-> f.poemType[1],
     language |-> f.language,
     submissionMethod |-> f.submissionMethod[1],
     inspiredBy |-> f.inspiredByVerse[1],
     content |-> IF f.submissionMethod = Some("manual") THEN f.content ELSE EmptyText,
     file |-> f.submissionMethod = Some("upload") /\ f.selectedFile,
     audio |-> f.submissionMethod = Some("recording") /\ f.audioFile,
     approved |-> TRUE]

\* handleSubmit: the request it posts (to /api/poems/manual for a manual
\* entry, to /api/poems/upload with the file or the audio otherwise).
SubmitRequest(f) ==
    [type |-> f.poemType[1],
     language |-> f.language,
     submissionMethod |-> f.submissionMethod[1],
     inspiredBy |-> f.inspiredByVerse[1],
     content |-> IF f.submissionMethod = Some("manual") THEN f.content ELSE EmptyText,
     file |-> f.submissionMethod = Some("upload") /\ f.selectedFile,
     audio |-> f.submissionMethod = Some("recording") /\ f.audioFile]

\* The form is shown and can be used.
SfForm == sf.pc = "idle" /\ ~sf.submitSuccess /\ ~sf.loading

\* Step 1: the poem type cards.
SP_SetPoemType(type) ==
    /\ SfForm
    /\ sf.poemType = None
    /\ sf' = [sf EXCEPT !.poemType = Some(type)]
    /\ UNCHANGED <<repo, nextId, api, fp, rp, cp, more>>

\* Step 2: the language select; the verse picked so far is dropped.
SP_SetLanguage(language) ==
    /\ SfForm
    /\ sf.poemType # None /\ sf.submissionMethod = None
    /\ sf' = [sf EXCEPT !.language = language, !.inspiredByVerse = None]
    /\ UNCHANGED <<repo, nextId, api, fp, rp, cp, more>>

\* Step 2: a verse (Matla) is picked.
SP_SelectVerse(verse) ==
    /\ SfForm
    /\ sf.poemType # None /\ sf.submissionMethod = None
    /\ sf' = [sf EXCEPT !.inspiredByVerse = Some(verse)]
    /\ UNCHANGED <<repo, nextId, api, fp, rp, cp, more>>

\* Mutant: the recording card is shown for either type.
RecordingCardShown_AnyType(f) == f.poemType # None

\* poemType === 'individual' && (the Upload Recording card)
RecordingCardShown(f) == f.poemType = Some("individual")

\* Step 2: the method cards, shown once a verse is picked; the recording
\* card is shown for an individual abyat only.
SP_SetMethod(method) ==
    /\ SfForm
    /\ sf.poemType # None /\ sf.submissionMethod = None
    /\ sf.inspiredByVerse # None
    /\ method = "recording" => RecordingCardShown(sf)
    /\ sf' = [sf EXCEPT !.submissionMethod = Some(method)]
    /\ UNCHANGED <<repo, nextId, api, fp, rp, cp, more>>

\* Step 3: the textarea of a manual entry.
SP_SetContent(text) ==
    /\ SfForm
    /\ sf.submissionMethod = Some("manual")
    /\ sf' = [sf EXCEPT !.content = text]
    /\ UNCHANGED <<repo, nextId, api, fp, rp, cp, more>>

\* handleFileChange
SP_ChooseFile ==
    /\ SfForm
    /\ sf.submissionMethod = Some("upload")
    /\ sf' = [sf EXCEPT !.selectedFile = TRUE]
    /\ UNCHANGED <<repo, nextId, api, fp, rp, cp, more>>

\* handleAudioChange
SP_ChooseAudio ==
    /\ SfForm
    /\ sf.submissionMethod = Some("recording")
    /\ sf' = [sf EXCEPT !.audioFile = TRUE]
    /\ UNCHANGED <<repo, nextId, api, fp, rp, cp, more>>

\* Mutant: resetForm leaves the text, the file and the audio as they are.
SP_ResetForm_KeepsPayload ==
    /\ sf.pc = "idle" /\ ~sf.submitSuccess /\ ~sf.loading
    /\ sf.submissionMethod # None
    /\ sf' = [sf EXCEPT !.poemType = None, !.language = "English",
                        !.inspiredByVerse = None,
                        !.submissionMethod = None,
                        !.errors = {}, !.error = None]
    /\ UNCHANGED <<repo, nextId, api, fp, rp, cp, more>>

\* resetForm (the Start Over button of step 3).
SP_ResetForm ==
    /\ SfForm
    /\ sf.submissionMethod # None
    /\ sf' = [sf EXCEPT !.poemType = None, !.language = "English",
                        !.inspiredByVerse = None,
                        !.submissionMethod = None, !.content = EmptyText,
                        !.selectedFile = FALSE, !.audioFile = FALSE,
                        !.errors = {}, !.error = None]
    /\ UNCHANGED <<repo, nextId, api, fp, rp, cp, more>>

\* handleSubmit (the submit button of step 3; the user is logged in), up to
\* the await.
SP_Submit ==
    /\ SfForm
    /\ sf.submissionMethod # None
    /\ sf' = IF ValidateForm(sf) # {}
             THEN [sf EXCEPT !.errors = ValidateForm(sf),
                             !.error = Some("Please log in and complete the form")]
             ELSE [sf EXCEPT !.errors = {},
                             !.error = None,
                             !.loading = TRUE,
                             !.pc = "submitting",
                             !.req = Some(SubmitRequest(sf)),
                             !.resp = None]
    /\ UNCHANGED <<repo, nextId, api, fp, rp, cp, more>>

\* Submission Intake handles the posted submission.
SP_ServerHandles ==
    /\ sf.pc = "submitting"
    /\ sf.resp = None
    /\ nextId <= MaxPoems
    /\ LET out == SrvIntake(repo, nextId, sf.req[1])
       IN  /\ repo' = out.repo
           /\ nextId' = IF out.status = OK THEN nextId + 1 ELSE nextId
           /\ sf' = [sf EXCEPT !.resp = Some(out.status)]
    /\ UNCHANGED <<api, fp, rp, cp, more>>

\* handleSubmit, after the await succeeded.
SP_SubmitDone ==
    /\ sf.pc = "submitting"
    /\ sf.resp = Some(OK)
    /\ sf' = [sf EXCEPT !.submitSuccess = TRUE, !.loading = FALSE,
                        !.pc = "idle", !.req = None, !.resp = None]
    /\ UNCHANGED <<repo, nextId, api, fp, rp, cp, more>>

\* handleSubmit's catch: the back end refused, or the request or its
\* response was lost on the way.
SP_SubmitFailed ==
    /\ sf.pc = "submitting"
    /\ sf' = [sf EXCEPT !.error = Some("Failed to submit Nazm. Please try again."),
                        !.loading = FALSE,
                        !.pc = "idle", !.req = None, !.resp = None]
    /\ UNCHANGED <<repo, nextId, api, fp, rp, cp, more>>

\* The Submit Another Nazm button of the thank-you panel.
SP_SubmitAnother ==
    /\ sf.pc = "idle"
    /\ sf.submitSuccess
    /\ sf' = [sf EXCEPT !.submitSuccess = FALSE]
    /\ UNCHANGED <<repo, nextId, api, fp, rp, cp, more>>

---------------------------------------------------------------------------
(* The Verse Catalog of the back end (from the written specification) *)

MaxVerses == 1         \* verses ever created

\* day in [1,10]
MinDay == 1
MaxDay == 10

\* What is typed as the text of a verse: nothing, white space alone, or a
\* text; and as its attribution: nothing or a text.
VerseTexts ==
    {[lead |-> 0, core |-> 0, trail |-> 0],
     [lead |-> 1, core |-> 0, trail |-> 0],
     [lead |-> 0, core |-> 1, trail |-> 0]}
VerseAuthors ==
    {[lead |-> 0, core |-> 0, trail |-> 0],
     [lead |-> 0, core |-> 1, trail |-> 0]}

\* empty text or attribution
Blank(text) == Length(Trim(text)) = 0

CatalogEmpty == [next |-> 1, verses |-> << >>]

\* create / update: the checks on the fields of a verse.
SrvVerseCheck(fields) ==
    IF Blank(fields.content) \/ Blank(fields.author) THEN ValidationError
    ELSE IF fields.day < MinDay \/ fields.day > MaxDay THEN Conflict
    ELSE OK

StoredVerse(id, fields) ==
    [id |-> id, content |-> fields.content, author |-> fields.author,
     day |-> fields.day]

\* create
SrvVerseCreate(c, fields) ==
    IF SrvVerseCheck(fields) # OK
    THEN [status |-> SrvVerseCheck(fields), catalog |-> c, data |-> None]
    ELSE [status |-> OK,
          catalog |-> [next |-> c.next + 1,
                       verses |-> [id \in DOMAIN c.verses \cup {c.next} |->
                                     IF id = c.next THEN StoredVerse(id, fields)
                                     ELSE c.verses[id]]],
          data |-> Some(StoredVerse(c.next, fields))]

\* update
SrvVerseUpdate(c, id, fields) ==
    IF id \notin DOMAIN c.verses
    THEN [status |-> NotFound, catalog |-> c, data |-> None]
    ELSE IF SrvVerseCheck(fields) # OK
    THEN [status |-> SrvVerseCheck(fields), catalog |-> c, data |-> None]
    ELSE [status |-> OK,
          catalog |-> [c EXCEPT !.verses[id] = StoredVerse(id, fields)],
          data |-> Some(StoredVerse(id, fields))]

\* delete
SrvVerseDelete(c, id) ==
    IF id \notin DOMAIN c.verses
    THEN [status |-> NotFound, catalog |-> c, data |-> None]
    ELSE [status |-> OK,
          catalog |-> [c EXCEPT !.verses =
                         [i \in DOMAIN c.verses \ {id} |-> c.verses[i]]],
          data |-> None]

\* list: the verses in the order of their creation.
SrvVerseList(c) ==
    LET ids == SeqOfIds(DOMAIN c.verses)
    IN  [i \in 1..Len(ids) |-> c.verses[ids[i]]]

---------------------------------------------------------------------------
(* AdminOpeningVersesPage *)

\* What is typed into the day field: a number, or nothing a number can be
\* read from.
TypedDays == {None} \cup {Some(n) : n \in {MinDay - 2, 0, MinDay, MaxDay, MaxDay + 1}}

\* parseInt(e.target.value) || 1
ParseDay(typed) == IF typed = None \/ typed[1] = 0 THEN 1 ELSE typed[1]

VpFormEmpty == [text |-> EmptyText, author |-> EmptyText, day |-> 1]

VpClosed ==
    [pc |-> "closed", verses |-> << >>, showAddForm |-> FALSE,
     editingId |-> None, formData |-> VpFormEmpty, loading |-> FALSE,
     error |-> None, req |-> None, resp |-> None]

\* fetchVerses: a verse of the response as the page keeps it.
ToVerse(verse) ==
    [id |-> verse.id, text |-> verse.content, author |-> verse.author,
     day |-> verse.day]

\* Mutant: a text of white space alone counts as filled in.
FieldsMissing_NoTrim(formData) ==
    Length(formData.text) = 0 \/ Length(formData.author) = 0

\* !formData.text.trim() || !formData.author.trim()
FieldsMissing(formData) ==
    Length(Trim(formData.text)) = 0 \/ Length(Trim(formData.author)) = 0

\* Mutant: only the lower end of the range is checked.
DayOutOfRange_NoUpper(formData) == formData.day < MinDay

\* formData.day < 1 || formData.day > 10
DayOutOfRange(formData) == formData.day < MinDay \/ formData.day > MaxDay

\* handleSubmit: the body of the PATCH or POST.
VerseFields(formData) ==
    [content |-> formData.text, author |-> formData.author, day |-> formData.day]

\* resetForm
VpResetForm(p) ==
    [p EXCEPT !.formData = VpFormEmpty, !.showAddForm = FALSE,
              !.editingId = None, !.error = None]

\* The page behind the loading and error screens.
VpShown ==
    /\ vp.pc = "idle"
    /\ ~(vp.loading /\ ~vp.showAddForm)
    /\ ~(vp.error # None /\ ~vp.showAddForm)

\* The page is opened: the fetchVerses effect starts.
VP_Open ==
    /\ vp.pc = "closed"
    /\ vp' = [VpClosed EXCEPT !.pc = "fetching", !.loading = TRUE]
    /\ UNCHANGED <<repo, nextId, api, fp, rp, cp, sf, catalog, gf, vw, lb, pd, nav, others>>

\* fetchVerses: the list arrives.
VP_FetchOk ==
    /\ vp.pc = "fetching"
    /\ vp' = [vp EXCEPT !.verses = SeqMap(ToVerse, SrvVerseList(catalog)),
                        !.loading = FALSE, !.pc = "idle"]
    /\ UNCHANGED <<repo, nextId, api, fp, rp, cp, sf, catalog, gf, vw, lb, pd, nav, others>>

\* fetchVerses: the request fails.
VP_FetchFail ==
    /\ vp.pc = "fetching"
    /\ vp' = [vp EXCEPT !.error = Some("Failed to load opening verses."),
                        !.verses = << >>,
                        !.loading = FALSE, !.pc = "idle"]
    /\ UNCHANGED <<repo, nextId, api, fp, rp, cp, sf, catalog, gf, vw, lb, pd, nav, others>>

\* The Retry button of the error screen: window.location.reload().
VP_Reload ==
    /\ vp.pc = "idle"
    /\ vp.error # None /\ ~vp.showAddForm
    /\ vp' = VpClosed
    /\ UNCHANGED <<repo, nextId, api, fp, rp, cp, sf, catalog, gf, vw, lb, pd, nav, others>>

\* The Add Matla button.
VP_ShowAddForm ==
    /\ VpShown /\ ~vp.loading
    /\ ~vp.showAddForm
    /\ vp' = [vp EXCEPT !.showAddForm = TRUE]
    /\ UNCHANGED <<repo, nextId, api, fp, rp, cp, sf, catalog, gf, vw, lb, pd, nav, others>>

\* The fields of the form.
VP_SetText(text) ==
    /\ VpShown /\ ~vp.loading /\ vp.showAddForm
    /\ vp' = [vp EXCEPT !.formData.text = text]
    /\ UNCHANGED <<repo, nextId, api, fp, rp, cp, sf, catalog, gf, vw, lb, pd, nav, others>>

VP_SetAuthor(text) ==
    /\ VpShown /\ ~vp.loading /\ vp.showAddForm
    /\ vp' = [vp EXCEPT !.formData.author = text]
    /\ UNCHANGED <<repo, nextId, api, fp, rp, cp, sf, catalog, gf, vw, lb, pd, nav, others>>

VP_SetDay(typed) ==
    /\ VpShown /\ ~vp.loading /\ vp.showAddForm
    /\ vp' = [vp EXCEPT !.formData.day = ParseDay(typed)]
    /\ UNCHANGED <<repo, nextId, api, fp, rp, cp, sf, catalog, gf, vw, lb, pd, nav, others>>

\* The Cancel button of the form: resetForm.
VP_Cancel ==
    /\ VpShown /\ ~vp.loading /\ vp.showAddForm
    /\ vp' = VpResetForm(vp)
    /\ UNCHANGED <<repo, nextId, api, fp, rp, cp, sf, catalog, gf, vw, lb, pd, nav, others>>

\* handleEdit(verse)
VP_Edit(i) ==
    /\ VpShown /\ ~vp.loading
    /\ i \in 1..Len(vp.verses)
    /\ vp' = [vp EXCEPT !.formData = [text |-> vp.verses[i].text,
                                      author |-> vp.verses[i].author,
                                      day |-> vp.verses[i].day],
                        !.editingId = Some(vp.verses[i].id),
                        !.showAddForm = TRUE]
    /\ UNCHANGED <<repo, nextId, api, fp, rp, cp, sf, catalog, gf, vw, lb, pd, nav, others>>

\* handleSubmit, up to the await.
VP_Submit ==
    /\ VpShown /\ ~vp.loading /\ vp.showAddForm
    /\ vp' = IF FieldsMissing(vp.formData)
             THEN [vp EXCEPT !.error = Some("Text and Lehen are required.")]
             ELSE IF DayOutOfRange(vp.formData)
             THEN [vp EXCEPT !.error = Some("Day must be between 1 and 10.")]
             ELSE [vp EXCEPT !.loading = TRUE,
                             !.pc = "saving",
                             !.req = Some([id |-> vp.editingId,
                                           fields |-> VerseFields(vp.formData)]),
                             !.resp = None]
    /\ UNCHANGED <<repo, nextId, api, fp, rp, cp, sf, catalog, gf, vw, lb, pd, nav, others>>

\* handleDelete(id), confirmed, up to the await.
VP_Delete(i) ==
    /\ VpShown /\ ~vp.loading
    /\ i \in 1..Len(vp.verses)
    /\ vp' = [vp EXCEPT !.loading = TRUE,
                        !.pc = "deleting",
                        !.req = Some([id |-> Some(vp.verses[i].id),
                                      fields |-> VerseFields(VpFormEmpty)]),
                        !.resp = None]
    /\ UNCHANGED <<repo, nextId, api, fp, rp, cp, sf, catalog, gf, vw, lb, pd, nav, others>>

\* The Verse Catalog handles the request of the page.
VP_ServerHandles ==
    /\ vp.pc \in {"saving", "deleting"}
    /\ vp.resp = None
    /\ LET req == vp.req[1]
           out == IF vp.pc = "deleting" THEN SrvVerseDelete(catalog, req.id[1])
                  ELSE IF req.id # None
                  THEN SrvVerseUpdate(catalog, req.id[1], req.fields)
                  ELSE SrvVerseCreate(catalog, req.fields)
       IN  /\ vp.pc = "saving" /\ req.id = None => catalog.next <= MaxVerses
           /\ catalog' = out.catalog
           /\ vp' = [vp EXCEPT !.resp = Some([status |-> out.status,
                                               data |-> out.data])]
    /\ UNCHANGED <<repo, nextId, api, fp, rp, cp, sf, gf, vw, lb, pd, nav, others>>

\* handleSubmit, after the await succeeded: the saved verse replaces the
\* edited one or is added at the end, then resetForm.
VP_SaveDone ==
    /\ vp.pc = "saving"
    /\ vp.resp # None /\ vp.resp[1].status = OK
    /\ LET data == ToVerse(vp.resp[1].data[1])
           verses == IF vp.editingId # None
                     THEN [i \in 1..Len(vp.verses) |->
                             IF vp.verses[i].id = vp.editingId[1] THEN data
                             ELSE vp.verses[i]]
                     ELSE Append(vp.verses, data)
       IN  vp' = [VpResetForm(vp) EXCEPT !.verses = verses,
                                         !.loading = FALSE, !.pc = "idle",
                                         !.req = None, !.resp = None]
    /\ UNCHANGED <<repo, nextId, api, fp, rp, cp, sf, catalog, gf, vw, lb, pd, nav, others>>

\* handleDelete, after the await succeeded.
VP_DeleteDone ==
    /\ vp.pc = "deleting"
    /\ vp.resp # None /\ vp.resp[1].status = OK
    /\ vp' = [vp EXCEPT !.verses = SeqFilter(LAMBDA verse : verse.id # vp.req[1].id[1],
                                             vp.verses),
                        !.loading = FALSE, !.pc = "idle",
                        !.req = None, !.resp = None]
    /\ UNCHANGED <<repo, nextId, api, fp, rp, cp, sf, catalog, gf, vw, lb, pd, nav, others>>

\* The catch of handleSubmit and of handleDelete: the back end refused, or
\* the request or its response was lost on the way.
VP_RequestFailed ==
    /\ vp.pc \in {"saving", "deleting"}
    /\ vp' = [vp EXCEPT !.error = IF vp.pc = "saving"
                                  THEN Some("Failed to save verse.")
                                  ELSE Some("Failed to delete verse."),
                        !.loading = FALSE, !.pc = "idle",
                        !.req = None, !.resp = None]
    /\ UNCHANGED <<repo, nextId, api, fp, rp, cp, sf, catalog, gf, vw, lb, pd, nav, others>>

---------------------------------------------------------------------------
(* The filter bar of AdminPoemCheckingPage and of AdminFeaturedPoemPage *)

MaxGrid == 2           \* poems a page fetched

\* The languages of the fetched poems.
GridLanguages == {"English", "Urdu"}

\* The options of the three selects.
StatusOptions == {"all", ARAZ_PENDING, ARAZ_DONE}
TypeOptions == {"all"} \cup PoemTypes
LanguageOptions == {"all"} \cup Languages

\* A fetched poem, as far as the filters read it.
GridPoems(id) ==
    [id : {id}, type : PoemTypes, language : GridLanguages,
     status : {ARAZ_PENDING, ARAZ_DONE}]

\* The lists a page can have fetched: poem i of a list has id i.
GridLists ==
    UNION {{s \in [1..n -> UNION {GridPoems(i) : i \in 1..n}] :
              \A i \in 1..n : s[i].id = i} : n \in 0..MaxGrid}

\* Mutant: each filter is applied to the whole list, the last one wins.
CheckingFilter_LastWins(poems, statusFilter, typeFilter, languageFilter) ==
    IF languageFilter # "all"
    THEN SeqFilter(LAMBDA poem : poem.language = languageFilter, poems)
    ELSE IF typeFilter # "all"
    THEN SeqFilter(LAMBDA poem : poem.type = typeFilter, poems)
    ELSE IF statusFilter # "all"
    THEN SeqFilter(LAMBDA poem : poem.status = statusFilter, poems)
    ELSE poems

\* AdminPoemCheckingPage, the apply-filters effect.
CheckingFilter(poems, statusFilter, typeFilter, languageFilter) ==
    LET byStatus == IF statusFilter # "all"
                    THEN SeqFilter(LAMBDA poem : poem.status = statusFilter, poems)
                    ELSE poems
        byType == IF typeFilter # "all"
                  THEN SeqFilter(LAMBDA poem : poem.type = typeFilter, byStatus)
                  ELSE byStatus
    IN  IF languageFilter # "all"
        THEN SeqFilter(LAMBDA poem : poem.language = languageFilter, byType)
        ELSE byType

\* AdminFeaturedPoemPage, the apply-filters effect.
FeaturedFilter(poems, typeFilter, languageFilter) ==
    LET byType == IF typeFilter # "all"
                  THEN SeqFilter(LAMBDA poem : poem.type = typeFilter, poems)
                  ELSE poems
    IN  IF languageFilter # "all"
        THEN SeqFilter(LAMBDA poem : poem.language = languageFilter, byType)
        ELSE byType

\* The effect runs after every change of the poems or of a filter.
GfEffect(g) ==
    [g EXCEPT !.filteredPoems =
        IF g.page = "checking"
        THEN CheckingFilter(g.poems, g.statusFilter, g.typeFilter, g.languageFilter)
        ELSE FeaturedFilter(g.poems, g.typeFilter, g.languageFilter)]

\* The status select (the checking page has one, the featured page not).
GF_SetStatusFilter(value) ==
    /\ gf.page = "checking"
    /\ gf' = GfEffect([gf EXCEPT !.statusFilter = value])
    /\ UNCHANGED <<repo, nextId, api, fp, rp, cp, sf, catalog, vp, vw, lb, pd, nav, others>>

\* The type select.
GF_SetTypeFilter(value) ==
    /\ gf' = GfEffect([gf EXCEPT !.typeFilter = value])
    /\ UNCHANGED <<repo, nextId, api, fp, rp, cp, sf, catalog, vp, vw, lb, pd, nav, others>>

\* The language select.
GF_SetLanguageFilter(value) ==
    /\ gf' = GfEffect([gf EXCEPT !.languageFilter = value])
    /\ UNCHANGED <<repo, nextId, api, fp, rp, cp, sf, catalog, vp, vw, lb, pd, nav, others>>

\* handleStatusUpdate succeeded on poem i of the checking page: setPoems
\* with the new status, and the effect runs on the new list.
GF_StatusUpdated(i) ==
    /\ gf.page = "checking"
    /\ i \in 1..Len(gf.poems)
    /\ gf' = GfEffect([gf EXCEPT !.poems[i].status =
                          IF gf.poems[i].status = ARAZ_DONE THEN ARAZ_PENDING
                          ELSE ARAZ_DONE])
    /\ UNCHANGED <<repo, nextId, api, fp, rp, cp, sf, catalog, vp, vw, lb, pd, nav, others>>

---------------------------------------------------------------------------
(* ViewPoemsPage *)

MaxViewed == 2         \* poems of the logged-in user

\* A string is the sequence of its characters.
Str_Gul == <<"G", "u", "l">>
Str_bulbul == <<"b", "u", "l", "b", "u", "l">>
Str_English == <<"E", "n", "g", "l", "i", "s", "h">>
Str_Urdu == <<"U", "r", "d", "u">>
\* 'No content available'
NoContentAvailable ==
    <<"N", "o", " ", "c", "o", "n", "t", "e", "n", "t", " ",
      "a", "v", "a", "i", "l", "a", "b", "l", "e">>

\* What is typed into the search box.
SearchQueries ==
    {<< >>, <<"g", "u", "l">>, <<"U", "L">>, <<"n", "o">>, <<"e", "n">>, <<"x">>}

\* The poems of a response: a content that is null for an uploaded file or
\* a recording, and a language.
ApiViewPoems(id) ==
    [id : {id}, content : {None, Some(Str_Gul), Some(Str_bulbul)},
     language : {Str_English, Str_Urdu}]

ApiViewLists ==
    UNION {{s \in [1..n -> UNION {ApiViewPoems(i) : i \in 1..n}] :
              \A i \in 1..n : s[i].id = i} : n \in 0..MaxViewed}

\* String.prototype.toLowerCase, on the letters in use.
LowerChar(c) ==
    CASE c = "G" -> "g"
      [] c = "U" -> "u"
      [] c = "L" -> "l"
      [] c = "E" -> "e"
      [] c = "N" -> "n"
      [] OTHER -> c

ToLowerCase(s) == [i \in 1..Len(s) |-> LowerChar(s[i])]

\* String.prototype.includes
Includes(s, q) ==
    \E i \in 0..(Len(s) - Len(q)) : SubSeq(s, i + 1, i + Len(q)) = q

\* fetchPoems: a poem of the response as the page keeps it;
\* content: poem.content || 'No content available'.
ToViewPoem(poem) ==
    [id |-> poem.id,
     content |-> IF poem.content = None \/ poem.content = Some(<< >>)
                 THEN NoContentAvailable ELSE poem.content[1],
     language |-> poem.language]

\* The search effect.
SearchFilter(poems, searchQuery) ==
    IF searchQuery = << >> THEN poems
    ELSE LET query == ToLowerCase(searchQuery)
         IN  SeqFilter(LAMBDA poem :
                          (IF poem.content # << >>
                           THEN Includes(ToLowerCase(poem.content), query)
                           ELSE FALSE)
                          \/ Includes(ToLowerCase(poem.language), query),
                       poems)

VwClosed ==
    [pc |-> "closed", response |-> << >>, poems |-> << >>,
     filteredPoems |-> << >>, searchQuery |-> << >>, loading |-> TRUE,
     error |-> None]

\* The page is opened by a logged-in user: the fetchPoems effect starts.
VW_Open ==
    /\ vw.pc = "closed"
    /\ vw' = [VwClosed EXCEPT !.pc = "fetching", !.loading = TRUE]
    /\ UNCHANGED <<repo, nextId, api, fp, rp, cp, sf, catalog, vp, gf, lb, pd, nav, others>>

\* fetchPoems: the response arrives; setPoems and setFilteredPoems, then the
\* search effect runs on the new poems.
VW_FetchOk(response) ==
    /\ vw.pc = "fetching"
    /\ LET formattedPoems == SeqMap(ToViewPoem, response)
       IN  vw' = [vw EXCEPT !.response = response,
                            !.poems = formattedPoems,
                            !.filteredPoems = SearchFilter(formattedPoems, vw.searchQuery),
                            !.loading = FALSE,
                            !.pc = "idle"]
    /\ UNCHANGED <<repo, nextId, api, fp, rp, cp, sf, catalog, vp, gf, lb, pd, nav, others>>

\* fetchPoems: the request fails (not with a 401, which leads to the login
\* page).
VW_FetchFail ==
    /\ vw.pc = "fetching"
    /\ vw' = [vw EXCEPT !.error = Some("Failed to fetch Nazms. Please try again."),
                        !.loading = FALSE,
                        !.pc = "idle"]
    /\ UNCHANGED <<repo, nextId, api, fp, rp, cp, sf, catalog, vp, gf, lb, pd, nav, others>>

\* The Retry button of the error screen: window.location.reload().
VW_Reload ==
    /\ vw.pc = "idle" /\ vw.error # None
    /\ vw' = VwClosed
    /\ UNCHANGED <<repo, nextId, api, fp, rp, cp, sf, catalog, vp, gf, lb, pd, nav, others>>

\* The search box: setSearchQuery, then the search effect.
VW_SetSearchQuery(searchQuery) ==
    /\ vw.pc = "idle" /\ ~vw.loading /\ vw.error = None
    /\ vw' = [vw EXCEPT !.searchQuery = searchQuery,
                        !.filteredPoems = SearchFilter(vw.poems, searchQuery)]
    /\ UNCHANGED <<repo, nextId, api, fp, rp, cp, sf, catalog, vp, gf, lb, pd, nav, others>>

---------------------------------------------------------------------------
(* LeaderboardPage, and the Rank Aggregator of the back end (from the      *)
(* written specification)                                                  *)

MaxRanked == 2         \* entries in the repository the leaderboard is taken from

Authors == {"poet1", "poet2"}

\* The stored entries as far as the aggregation reads them; a rated entry is
\* an approved one.
RankedEntries(id) ==
    {e \in [id : {id}, authorId : Authors, type : PoemTypes, approved : BOOLEAN,
            rating : {None, Some(20), Some(45)}] :
        e.rating # None => e.approved}

RankedRepos ==
    UNION {{r \in [1..n -> UNION {RankedEntries(i) : i \in 1..n}] :
              \A i \in 1..n : r[i].id = i} : n \in 0..MaxRanked}

\* The entries of the repository, in insertion order.
RepoSeq(r) == SeqMap(LAMBDA i : r[i], SeqOfIds(DOMAIN r))

\* One author's row: the stars and the count of the qualifying entries among
\* es, added up one entry after the other.
RECURSIVE RankRow(_, _, _)
RankRow(author, kind, es) ==
    IF es = << >>
    THEN [authorName |-> author, totalStars |-> 0, submissionCount |-> 0]
    ELSE LET rest == RankRow(author, kind, Tail(es))
             e == Head(es)
         IN  IF e.authorId = author /\ e.type = kind /\ e.approved /\ e.rating # None
             THEN [rest EXCEPT !.totalStars = @ + e.rating[1],
                               !.submissionCount = @ + 1]
             ELSE rest

\* The rows sorted by totalStars, descending; rows with the same stars by
\* author name, ascending.
RECURSIVE SortRows(_)
SortRows(rows) ==
    IF rows = {} THEN << >>
    ELSE LET top == CHOOSE x \in rows :
                       \A y \in rows :
                          \/ x.totalStars > y.totalStars
                          \/ x.totalStars = y.totalStars
                                /\ (x.authorName = "poet1" \/ y.authorName # "poet1")
         IN  <<top>> \o SortRows(rows \ {top})

\* leaderboard(kind)
SrvLeaderboard(r, kind) ==
    LET rows == {RankRow(author, kind, RepoSeq(r)) : author \in Authors}
    IN  SortRows({row \in rows : row.submissionCount > 0})

LbClosed ==
    [pc |-> "closed", selectedCategory |-> "individual", leaderboard |-> << >>,
     loading |-> TRUE, error |-> None, type |-> None]

\* Mutant: the request always asks for the individual abyat.
LeaderboardQuery_Individual(selectedCategory) == "individual"

\* GET /api/leaderboard?type=${selectedCategory}
LeaderboardQuery(selectedCategory) == selectedCategory

\* The page is opened by a logged-in user: the fetchLeaderboard effect
\* starts.
LB_Open ==
    /\ lb.pc = "closed"
    /\ lb' = [LbClosed EXCEPT !.pc = "fetching", !.loading = TRUE,
                              !.type = Some(LeaderboardQuery("individual"))]
    /\ UNCHANGED <<repo, nextId, api, fp, rp, cp, sf, catalog, vp, gf, vw, pd, nav, others>>

\* fetchLeaderboard: the entries arrive and are shown as they are.
LB_FetchOk ==
    /\ lb.pc = "fetching"
    /\ lb' = [lb EXCEPT !.leaderboard = SrvLeaderboard(repo, lb.type[1]),
                        !.loading = FALSE, !.pc = "idle", !.type = None]
    /\ UNCHANGED <<repo, nextId, api, fp, rp, cp, sf, catalog, vp, gf, vw, pd, nav, others>>

\* fetchLeaderboard: the request fails.
LB_FetchFail ==
    /\ lb.pc = "fetching"
    /\ lb' = [lb EXCEPT !.error = Some("Failed to load leaderboard."),
                        !.loading = FALSE, !.pc = "idle", !.type = None]
    /\ UNCHANGED <<repo, nextId, api, fp, rp, cp, sf, catalog, vp, gf, vw, pd, nav, others>>

\* The Retry button of the error screen: window.location.reload().
LB_Reload ==
    /\ lb.pc = "idle" /\ lb.error # None
    /\ lb' = LbClosed
    /\ UNCHANGED <<repo, nextId, api, fp, rp, cp, sf, catalog, vp, gf, vw, pd, nav, others>>

\* A category button: setSelectedCategory; the effect runs again when the
\* category changed.
LB_SelectCategory(category) ==
    /\ lb.pc = "idle" /\ ~lb.loading /\ lb.error = None
    /\ lb' = IF category = lb.selectedCategory THEN lb
             ELSE [lb EXCEPT !.selectedCategory = category,
                             !.loading = TRUE, !.pc = "fetching",
                             !.type = Some(LeaderboardQuery(category))]
    /\ UNCHANGED <<repo, nextId, api, fp, rp, cp, sf, catalog, vp, gf, vw, pd, nav, others>>

---------------------------------------------------------------------------
(* Review Workflow Engine: the authorization guard (from the written       *)
(* specification).  The identity collaborator resolves the bearer          *)
(* credential of a request to a role; the guard runs once per operation,   *)
(* before anything else.                                                   *)

Roles == {"user", "admin"}

PermissionDenied == "PermissionDenied"

EntryOps ==
    {"approve", "reject", "rate", "feature", "unfeature", "recordCorrection",
     "markPending"}
VerseOps == {"verseCreate", "verseUpdate", "verseDelete"}

\* The administrator-only operations.
AdminOnly == EntryOps \cup VerseOps

\* Mutant: the guard lets every role through.
Authorized_Anyone(role, op) == TRUE

Authorized(role, op) == op \in AdminOnly => role = "admin"

\* The argument an operation takes besides the entry id: the value of a
\* rate, the corrected text of a recordCorrection (None for a file alone),
\* the time of a feature.
EntryArgs(op) ==
    IF op = "rate" THEN RateInputs
    ELSE IF op = "recordCorrection" THEN {None, Some(1)}
    ELSE IF op = "feature" THEN Times
    ELSE {None}

\* One operation on an entry, called with the resolved role.
EngineCall(r, role, op, id, arg) ==
    IF ~Authorized(role, op) THEN [status |-> PermissionDenied, repo |-> r]
    ELSE IF op = "approve" THEN SrvApprove(r, id)
    ELSE IF op = "reject" THEN SrvReject(r, id)
    ELSE IF op = "rate" THEN SrvRate(r, id, arg)
    ELSE IF op = "feature" THEN SrvFeature(r, id, TRUE, arg)
    ELSE IF op = "unfeature" THEN SrvFeature(r, id, FALSE, None)
    ELSE IF op = "recordCorrection" THEN SrvAraz(r, id, arg)
    ELSE SrvStatus(r, id, ARAZ_PENDING)

\* One operation on the Verse Catalog, called with the resolved role (a
\* create does not look at the id).
CatalogCall(c, role, op, id, fields) ==
    IF ~Authorized(role, op)
    THEN [status |-> PermissionDenied, catalog |-> c, data |-> None]
    ELSE IF op = "verseCreate" THEN SrvVerseCreate(c, fields)
    ELSE IF op = "verseUpdate" THEN SrvVerseUpdate(c, id, fields)
    ELSE SrvVerseDelete(c, id)

\* What is kept of the last call: who asked for what, and the answer.
Outcome(role, op, id, out) ==
    Some([op |-> op, id |-> id, role |-> role, status |-> out.status])

Eng_Entry(role, op, id, arg) ==
    /\ repo' = EngineCall(repo, role, op, id, arg).repo
    /\ api' = Outcome(role, op, id, EngineCall(repo, role, op, id, arg))
    /\ UNCHANGED <<nextId, fp, rp, cp, sf, more>>

Eng_Verse(role, op, id, fields) ==
    /\ op = "verseCreate" => catalog.next <= MaxVerses
    /\ catalog' = CatalogCall(catalog, role, op, id, fields).catalog
    /\ api' = Outcome(role, op, id, CatalogCall(catalog, role, op, id, fields))
    /\ UNCHANGED <<repo, nextId, fp, rp, cp, sf, vp, gf, vw, lb, pd, nav, others>>

---------------------------------------------------------------------------
(* App and AuthContext: the session and the administrator routes.  The     *)
(* user object carries the role the front end goes by; its token is the    *)
(* bearer credential, which the identity collaborator resolves to the role *)
(* the back end goes by.  Both are read back from localStorage when the    *)
(* application is mounted.                                                 *)

AdminPaths ==
    {"/admin-review", "/admin-opening-verses", "/admin-featured-poem",
     "/admin-poem-checking"}
Paths == {"/dashboard"} \cup AdminPaths

NavInit == [user |-> None, path |-> "/login"]

\* Mutant: every signed-in user counts as an administrator.
isAdmin_AnyUser(user) == user # None

\* isAdmin: user?.role === 'admin'
isAdmin(user) == user # None /\ user[1].role = "admin"

\* AdminRoute: what a request for an administrator route shows.
AdminRoute(user, path) ==
    IF user = None THEN "/login"
    ELSE IF ~isAdmin(user) THEN "/dashboard"
    ELSE path

\* Routes: the administrator routes are wrapped in AdminRoute.
RouteTo(user, path) ==
    IF path \in AdminPaths THEN AdminRoute(user, path) ELSE path

\* AuthProvider, on mount: the stored user and token are taken as they are.
NAV_Restore(role, token) ==
    /\ nav.user = None
    /\ nav' = [nav EXCEPT !.user = Some([role |-> role, token |-> token])]
    /\ UNCHANGED <<repo, nextId, api, fp, rp, cp, sf, catalog, vp, gf, vw, lb, pd, others>>

\* login: the role is the one the back end answers with the token.
NAV_Login(role) ==
    /\ nav.user = None
    /\ nav' = [nav EXCEPT !.user = Some([role |-> role, token |-> role])]
    /\ UNCHANGED <<repo, nextId, api, fp, rp, cp, sf, catalog, vp, gf, vw, lb, pd, others>>

\* handleLogout: logout(), then navigate('/login').
NAV_Logout ==
    /\ nav.user # None
    /\ nav' = [user |-> None, path |-> "/login"]
    /\ UNCHANGED <<repo, nextId, api, fp, rp, cp, sf, catalog, vp, gf, vw, lb, pd, others>>

\* navigate(item.path) of a signed-in user.
NAV_Go(path) ==
    /\ nav.user # None
    /\ nav' = [nav EXCEPT !.path = RouteTo(nav.user, path)]
    /\ UNCHANGED <<repo, nextId, api, fp, rp, cp, sf, catalog, vp, gf, vw, lb, pd, others>>

---------------------------------------------------------------------------
(* PoemDetails, as the featured page shows it over its grid *)

\* GET /api/poems/{id} (from the written specification).
SrvGet(r, id) ==
    IF id \notin DOMAIN r THEN [status |-> NotFound, data |-> None]
    ELSE [status |-> OK, data |-> Some(r[id])]

\* fetchPoem: ApiPoem -> Poem; what the response leaves out is taken from
\* the poem the component was given.
FormatPoem(apiPoem, initialPoem) ==
    [id |-> apiPoem.id,
     approved |-> apiPoem.approved,
     rating |-> IF apiPoem.rating = None THEN initialPoem.rating
                ELSE apiPoem.rating,
     status |-> apiPoem.status,
     arazContent |-> IF apiPoem.arazContent \in {None, Some(0)}
                     THEN initialPoem.arazContent
                     ELSE apiPoem.arazContent,
     featured |-> apiPoem.featured,
     featuredDate |-> IF apiPoem.featuredDate = None
                      THEN initialPoem.featuredDate
                      ELSE apiPoem.featuredDate]

\* The card or the eye button of a poem of the grid: setSelectedPoemId.  The
\* component is mounted and its fetchPoem effect starts.
PD_Open(a, id) ==
    /\ pd = None
    /\ FpReady(a)
    /\ \E i \in 1..Len(fp[a].poems) :
          /\ fp[a].poems[i].id = id
          /\ pd' = [pc |-> "fetching", initialPoem |-> fp[a].poems[i],
                    poem |-> fp[a].poems[i], loading |-> TRUE,
                    error |-> None, resp |-> None]
    /\ UNCHANGED <<repo, nextId, api, fp, rp, cp, sf, catalog, vp, gf, vw, lb, nav, others>>

\* The back end handles the request.
PD_ServerHandles ==
    /\ pd # None
    /\ pd.pc = "fetching"
    /\ pd.resp = None
    /\ pd' = [pd EXCEPT !.resp = Some(SrvGet(repo, pd.initialPoem.id))]
    /\ UNCHANGED <<repo, nextId, api, fp, rp, cp, sf, catalog, vp, gf, vw, lb, nav, others>>

\* fetchPoem, after the await succeeded.
PD_FetchOk ==
    /\ pd # None
    /\ pd.pc = "fetching"
    /\ pd.resp # None
    /\ pd.resp[1].status = OK
    /\ pd' = [pd EXCEPT !.poem = FormatPoem(pd.resp[1].data[1], pd.initialPoem),
                        !.loading = FALSE,
                        !.pc = "idle",
                        !.resp = None]
    /\ UNCHANGED <<repo, nextId, api, fp, rp, cp, sf, catalog, vp, gf, vw, lb, nav, others>>

\* Mutant: the catch starts the request again.
PD_FetchFail_Retries ==
    /\ pd # None
    /\ pd.pc = "fetching"
    /\ pd' = [pd EXCEPT !.poem = pd.initialPoem, !.resp = None]
    /\ UNCHANGED <<repo, nextId, api, fp, rp, cp, sf, catalog, vp, gf, vw, lb, nav, others>>

\* fetchPoem's catch and finally: the back end answered 404, or the request
\* or its response was lost on the way.
PD_FetchFail ==
    /\ pd # None
    /\ pd.pc = "fetching"
    /\ pd' = [pd EXCEPT !.error =
                            Some(IF pd.resp # None /\ pd.resp[1].status = NotFound
                                 THEN "Poem not found"
                                 ELSE "Failed to load poem details"),
                        !.poem = pd.initialPoem,
                        !.loading = FALSE,
                        !.pc = "idle",
                        !.resp = None]
    /\ UNCHANGED <<repo, nextId, api, fp, rp, cp, sf, catalog, vp, gf, vw, lb, nav, others>>

\* onClose (the Close button of the error or of the details):
\* setSelectedPoemId(null) unmounts the component.
PD_Close ==
    /\ pd # None
    /\ ~pd.loading
    /\ pd' = None
    /\ UNCHANGED <<repo, nextId, api, fp, rp, cp, sf, catalog, vp, gf, vw, lb, nav, others>>

---------------------------------------------------------------------------
(* BestPoemPage *)

MaxBest == 4           \* entries in the repository the best poems are taken from
TopCount == 3          \* .slice(0, 3)

\* The languages of the entries the best poems are taken from.
BestLanguages == {"English", "Urdu"}

\* The stored entries as far as the page reads them; a rated entry is an
\* approved one.
BestEntries(id) ==
    {e \in [id : {id}, language : BestLanguages, approved : BOOLEAN,
            rating : {None, Some(30), Some(50)}] :
        e.rating # None => e.approved}

\* The repository that holds the entries es[1], es[2], ... under the ids
\* 1, 2, ...
BestRepo(es) == [i \in DOMAIN es |-> [es[i] EXCEPT !.id = i]]

\* Array.prototype.sort((a, b) => (b.rating ?? 0) - (a.rating ?? 0)): by
\* rating, descending; poems of the same rating keep their order.
RECURSIVE InsertBefore(_, _)
InsertBefore(poem, s) ==
    IF s = << >> THEN <<poem>>
    ELSE IF RatingKey(Head(s)) > RatingKey(poem)
         THEN <<Head(s)>> \o InsertBefore(poem, Tail(s))
         ELSE <<poem>> \o s

RECURSIVE SortBest(_)
SortBest(s) ==
    IF s = << >> THEN << >>
    ELSE InsertBefore(Head(s), SortBest(Tail(s)))

\* Array.prototype.slice(0, n)
Slice(s, n) == SubSeq(s, 1, IF Len(s) < n THEN Len(s) ELSE n)

\* GET /api/poems { approved: true }
BestPoemsQuery == [approved |-> Some(TRUE), status |-> None, sortBy |-> "none"]

\* fetchPoems: the rated poems of the answer, sorted by rating, the first
\* three of them.
FormatBest(apiPoems) ==
    Slice(SortBest(SeqMap(LAMBDA apiPoem :
                              [id |-> apiPoem.id, language |-> apiPoem.language,
                               approved |-> apiPoem.approved,
                               rating |-> apiPoem.rating],
                          SeqFilter(LAMBDA poem : poem.rating # None
                                                  /\ poem.rating[1] >= 0,
                                    apiPoems))),
          TopCount)

\* The languages in the order categories.byLanguage goes through them.
LanguageOrder == <<"English", "French", "Arabic", "Lisan al-Dawah", "Urdu">>

\* The best poem of a language among poems, or null.
BestOfLanguage(poems, language) ==
    LET sorted == SortBest(SeqFilter(LAMBDA poem : poem.language = language, poems))
    IN  IF sorted = << >> THEN None ELSE Some(Head(sorted))

\* categories[key].poems
CategoryPoems(poems, key) ==
    IF key = "highestRated" THEN Slice(SortBest(poems), TopCount)
    ELSE SeqMap(LAMBDA best : best[1],
                SeqFilter(LAMBDA best : best # None,
                          SeqMap(LAMBDA language : BestOfLanguage(poems, language),
                                 LanguageOrder)))

BestCategories == {"highestRated", "byLanguage"}

BpClosed ==
    [pc |-> "closed", poems |-> << >>, selectedCategory |-> "highestRated",
     loading |-> TRUE, error |-> None]

\* The page is opened by a logged-in user: the fetchPoems effect starts.
BP_Open ==
    /\ bp.pc = "closed"
    /\ bp' = [BpClosed EXCEPT !.pc = "fetching", !.loading = TRUE]
    /\ UNCHANGED <<repo, nextId, api, fp, rp, cp, sf, catalog, vp, gf, vw, lb, pd, nav, auth, vs>>

\* fetchPoems: the approved poems arrive.
BP_FetchOk ==
    /\ bp.pc = "fetching"
    /\ bp' = [bp EXCEPT !.poems = FormatBest(SrvList(repo, BestPoemsQuery)),
                        !.loading = FALSE, !.pc = "idle"]
    /\ UNCHANGED <<repo, nextId, api, fp, rp, cp, sf, catalog, vp, gf, vw, lb, pd, nav, auth, vs>>

\* fetchPoems: the request fails.
BP_FetchFail ==
    /\ bp.pc = "fetching"
    /\ bp' = [bp EXCEPT !.error = Some("Failed to load best poems."),
                        !.loading = FALSE, !.pc = "idle"]
    /\ UNCHANGED <<repo, nextId, api, fp, rp, cp, sf, catalog, vp, gf, vw, lb, pd, nav, auth, vs>>

\* The Retry button of the error screen: window.location.reload().
BP_Reload ==
    /\ bp.pc = "idle" /\ bp.error # None
    /\ bp' = BpClosed
    /\ UNCHANGED <<repo, nextId, api, fp, rp, cp, sf, catalog, vp, gf, vw, lb, pd, nav, auth, vs>>

\* A category button: setSelectedCategory(key).
BP_SelectCategory(key) ==
    /\ bp.pc = "idle" /\ ~bp.loading /\ bp.error = None
    /\ bp' = [bp EXCEPT !.selectedCategory = key]
    /\ UNCHANGED <<repo, nextId, api, fp, rp, cp, sf, catalog, vp, gf, vw, lb, pd, nav, auth, vs>>

\* The poems of the grid.
BpShown == CategoryPoems(bp.poems, bp.selectedCategory)

---------------------------------------------------------------------------
(* AuthProvider over localStorage, the routes of App as the browser loads  *)
(* them, and the poem list of ViewPoemsPage when the session has expired.  *)
(* The expiry of a token is the back end's (from the written               *)
(* specification: a request without a valid credential is refused).        *)

\* The keys of localStorage the front end names.
StorageKeys == {"poetry_user", "poetry_token", "user"}

EmptyStorage == [key \in StorageKeys |-> None]

\* The paths a browser is pointed at.
LoadPaths == {"/login"} \cup AdminPaths

\* The paths of the links of a signed-in user.
LinkPaths == {"/dashboard", "/view-poems"} \cup AdminPaths

\* The application as the browser has just loaded it at path: user is null
\* and loading is true until the effects of the first render have run.
Loaded(storage, path, expired, sessionExpired) ==
    [storage |-> storage, user |-> None, loading |-> TRUE, path |-> path,
     pc |-> "loaded", navigate |-> None, expired |-> expired,
     sessionExpired |-> sessionExpired]

AuthInit == Loaded(EmptyStorage, "/login", FALSE, FALSE)

\* The mount effect of AuthProvider: the user it sets.
StoredSession(storage) ==
    IF storage["poetry_user"] # None /\ storage["poetry_token"] # None
    THEN Some([role |-> storage["poetry_user"][1],
               token |-> storage["poetry_token"][1]])
    ELSE None

\* The browser loads the application at a path (the address is typed, or
\* the page is reloaded): every component starts anew.
AU_Load(path) ==
    /\ auth' = Loaded(auth.storage, path, auth.expired, auth.sessionExpired)
    /\ vw' = VwClosed
    /\ UNCHANGED <<repo, nextId, api, fp, rp, cp, sf, catalog, vp, gf, lb, pd, nav, bp, vs>>

\* The first render: the routes are matched with the user as AuthProvider
\* holds it; AdminRoute renders a Navigate or the Outlet.
AU_Render ==
    /\ auth.pc = "loaded"
    /\ auth' = [auth EXCEPT !.pc = "rendered",
                            !.navigate =
                                IF RouteTo(auth.user, auth.path) = auth.path THEN None
                                ELSE Some(RouteTo(auth.user, auth.path))]
    /\ UNCHANGED <<repo, nextId, api, fp, rp, cp, sf, catalog, vp, gf, vw, lb, pd, nav, bp, vs>>

\* The effects of the first render: the Navigate that was rendered
\* replaces the location, and the mount effect of AuthProvider sets the
\* stored user and clears loading.
AU_Effects ==
    /\ auth.pc = "rendered"
    /\ auth' = [auth EXCEPT !.pc = "ready",
                            !.path = IF auth.navigate = None THEN auth.path
                                     ELSE auth.navigate[1],
                            !.navigate = None,
                            !.user = StoredSession(auth.storage),
                            !.loading = FALSE]
    /\ UNCHANGED <<repo, nextId, api, fp, rp, cp, sf, catalog, vp, gf, vw, lb, pd, nav, bp, vs>>

\* login: the user and the token of the answer are set and stored.
AU_Login(role) ==
    /\ auth.pc = "ready"
    /\ auth.user = None
    /\ auth' = [auth EXCEPT !.user = Some([role |-> role, token |-> role]),
                            !.storage = [auth.storage EXCEPT
                                            !["poetry_user"] = Some(role),
                                            !["poetry_token"] = Some(role)],
                            !.expired = FALSE,
                            !.sessionExpired = FALSE]
    /\ UNCHANGED <<repo, nextId, api, fp, rp, cp, sf, catalog, vp, gf, vw, lb, pd, nav, bp, vs>>

\* handleLogout: logout(), then navigate('/login').
AU_Logout ==
    /\ auth.pc = "ready"
    /\ auth.user # None
    /\ auth' = [auth EXCEPT !.user = None,
                            !.storage = [auth.storage EXCEPT
                                            !["poetry_user"] = None,
                                            !["poetry_token"] = None],
                            !.path = "/login"]
    /\ vw' = VwClosed
    /\ UNCHANGED <<repo, nextId, api, fp, rp, cp, sf, catalog, vp, gf, lb, pd, nav, bp, vs>>

\* navigate(item.path) of a signed-in user, within the loaded application.
AU_Go(path) ==
    /\ auth.pc = "ready"
    /\ auth.user # None
    /\ auth' = [auth EXCEPT !.path = RouteTo(auth.user, path)]
    /\ vw' = VwClosed
    /\ UNCHANGED <<repo, nextId, api, fp, rp, cp, sf, catalog, vp, gf, lb, pd, nav, bp, vs>>

\* The back end stops accepting the token of the session.
AU_Expire ==
    /\ auth.storage["poetry_token"] # None
    /\ ~auth.expired
    /\ auth' = [auth EXCEPT !.expired = TRUE]
    /\ UNCHANGED <<repo, nextId, api, fp, rp, cp, sf, catalog, vp, gf, vw, lb, pd, nav, bp, vs>>

\* ViewPoemsPage is shown to the signed-in user.
ViewPoemsShown ==
    auth.pc = "ready" /\ auth.user # None /\ auth.path = "/view-poems"

\* Mutant: the catch removes the keys the session is stored under.
SessionExpiredStorage_PoetryKeys(storage) ==
    [storage EXCEPT !["poetry_user"] = None, !["poetry_token"] = None]

\* fetchPoems, catch, status 401: localStorage.removeItem('user')
SessionExpiredStorage(storage) == [storage EXCEPT !["user"] = None]

\* fetchPoems: the request is refused with 401.  The catch removes the
\* item 'user' and sets window.location.href = '/login', which loads the
\* application again.
VW_SessionExpired ==
    /\ ViewPoemsShown
    /\ vw.pc = "fetching"
    /\ auth.expired
    /\ auth' = Loaded(SessionExpiredStorage(auth.storage), "/login", auth.expired, TRUE)
    /\ vw' = VwClosed
    /\ UNCHANGED <<repo, nextId, api, fp, rp, cp, sf, catalog, vp, gf, lb, pd, nav, bp, vs>>

---------------------------------------------------------------------------
(* SubmitPoemPage: the Matla of the selected language.  The verses of a    *)
(* language are the back end's (from the written specification); a request *)
(* is answered at any time after it was sent, or fails.                    *)

MaxFetches == 3        \* requests for verses sent since the page was opened

\* GET /api/verses { language }: the verses of the language, in use.
SrvVersesOf(language) ==
    <<[id |-> language, content |-> 1, author |-> 1, language |-> language, day |-> 1]>>

\* fetchVerses: a verse of the response as the page keeps it.
ToMatla(verse) ==
    [id |-> verse.id, text |-> verse.content, author |-> verse.author,
     language |-> verse.language, day |-> verse.day]

\* The page as it is opened: the language is English, and the fetchVerses
\* effect has sent its first request.
VsInit ==
    [language |-> "English", currentVerses |-> << >>, inspiredByVerse |-> None,
     error |-> None, sent |-> 1,
     requests |-> {[n |-> 1, language |-> "English"]}]

\* Mutant: a language cannot be chosen while a request is on its way.
SV_LanguageEnabled_WhenIdle == vs.requests = {}

\* The language select is never disabled.
SV_LanguageEnabled == TRUE

\* The language select, onChange: setLanguage, setInspiredByVerse('');
\* the fetchVerses effect runs again with the new language.
SV_SetLanguage(language) ==
    /\ SV_LanguageEnabled
    /\ language # vs.language
    /\ vs.sent < MaxFetches
    /\ vs' = [vs EXCEPT !.language = language,
                        !.inspiredByVerse = None,
                        !.sent = @ + 1,
                        !.requests = @ \cup {[n |-> vs.sent + 1, language |-> language]}]
    /\ UNCHANGED <<repo, nextId, api, fp, rp, cp, sf, catalog, vp, gf, vw, lb, pd, nav, bp, auth>>

\* fetchVerses: the answer to one of the requests arrives;
\* setCurrentVerses.
SV_FetchOk(request) ==
    /\ request \in vs.requests
    /\ vs' = [vs EXCEPT !.currentVerses = SeqMap(ToMatla, SrvVersesOf(request.language)),
                        !.requests = @ \ {request}]
    /\ UNCHANGED <<repo, nextId, api, fp, rp, cp, sf, catalog, vp, gf, vw, lb, pd, nav, bp, auth>>

\* fetchVerses: one of the requests fails.
SV_FetchFail(request) ==
    /\ request \in vs.requests
    /\ vs' = [vs EXCEPT !.error = Some("Failed to fetch Matale"),
                        !.requests = @ \ {request}]
    /\ UNCHANGED <<repo, nextId, api, fp, rp, cp, sf, catalog, vp, gf, vw, lb, pd, nav, bp, auth>>

\* A click on one of the verses shown: setInspiredByVerse(verse.id).
SV_SelectVerse(id) ==
    /\ \E i \in 1..Len(vs.currentVerses) : vs.currentVerses[i].id = id
    /\ vs' = [vs EXCEPT !.inspiredByVerse = Some(id)]
    /\ UNCHANGED <<repo, nextId, api, fp, rp, cp, sf, catalog, vp, gf, vw, lb, pd, nav, bp, auth>>

\* The ids of the verses in use.
MatlaIds ==
    UNION {{verse.id : verse \in Range(SrvVersesOf(language))} : language \in Languages}

\* The requests a page can have sent.
VerseRequests == [n : 1..MaxFetches, language : Languages]

---------------------------------------------------------------------------
(* Requests of sessions outside the modelled pages reaching the back end *)

Answer(op, id, out) == Some([op |-> op, id |-> id, status |-> out.status])

Api_Submit ==
    /\ nextId <= MaxPoems
    /\ repo' = SrvSubmit(repo, nextId).repo
    /\ nextId' = nextId + 1
    /\ UNCHANGED <<api, fp, rp, cp, sf, more>>

Api_Approve(id) ==
    /\ repo' = SrvApprove(repo, id).repo
    /\ UNCHANGED <<nextId, api, fp, rp, cp, sf, more>>

Api_Reject(id) ==
    /\ repo' = SrvReject(repo, id).repo
    /\ UNCHANGED <<nextId, api, fp, rp, cp, sf, more>>

Api_Rate(id, v) ==
    /\ repo' = SrvRate(repo, id, v).repo
    /\ UNCHANGED <<nextId, api, fp, rp, cp, sf, more>>

\* A rate request whose answer is kept.
Api_RateAnswered(id, v) ==
    /\ repo' = SrvRate(repo, id, v).repo
    /\ api' = Answer("rate", id, SrvRate(repo, id, v))
    /\ UNCHANGED <<nextId, fp, rp, cp, sf, more>>

Api_Feature(id, flag) ==
    /\ \E now \in Times :
          /\ repo' = SrvFeature(repo, id, flag, now).repo
          /\ api' = Answer(IF flag THEN "feature" ELSE "unfeature", id,
                           SrvFeature(repo, id, flag, now))
    /\ UNCHANGED <<nextId, fp, rp, cp, sf, more>>

Api_Araz(id, text) ==
    /\ repo' = SrvAraz(repo, id, Some(text)).repo
    /\ api' = Answer("araz", id, SrvAraz(repo, id, Some(text)))
    /\ UNCHANGED <<nextId, fp, rp, cp, sf, more>>

---------------------------------------------------------------------------
(* The featured-poem workflow: one administrator on the featured page,     *)
(* the other sessions' requests arriving at the back end in between.       *)

Init ==
    /\ repo = << >>
    /\ nextId = 1
    /\ api = None
    /\ fp = [a \in Admins |-> FpClosed]
    /\ rp = None
    /\ cp = None
    /\ sf = None
    /\ MoreClosed

FeaturePage(a) ==
    \/ FP_Open(a)
    \/ FP_FetchOk(a)
    \/ FP_FetchFail(a)
    \/ FP_Reload(a)
    \/ \E id \in PoemIds : FP_Feature(a, id)
    \/ FP_Unfeature(a)
    \/ FP_ServerHandles(a)
    \/ FP_FeatureDone(a)
    \/ FP_UnfeatureDone(a)
    \/ FP_PatchFailed(a)

Next ==
    \/ Api_Submit
    \/ \E id \in PoemIds : Api_Approve(id)
    \/ \E id \in PoemIds : Api_Reject(id)
    \/ \E id \in PoemIds, v \in RateInputs : Api_Rate(id, v)
    \/ \E id \in PoemIds, flag \in BOOLEAN : Api_Feature(id, flag)
    \/ FeaturePage("admin1")

Spec == Init /\ [][Next]_vars

\* The same without the rate requests, which do not touch the featured flag.
NextFeature ==
    \/ Api_Submit
    \/ \E id \in PoemIds : Api_Approve(id)
    \/ \E id \in PoemIds : Api_Reject(id)
    \/ \E id \in PoemIds, flag \in BOOLEAN : Api_Feature(id, flag)
    \/ FeaturePage("admin1")

SpecFeature == Init /\ [][NextFeature]_vars

\* Two administrators on the featured page at once, over entries that are
\* submitted and approved in between.
NextConcurrent ==
    \/ Api_Submit
    \/ \E id \in PoemIds : Api_Approve(id)
    \/ FeaturePage("admin1")
    \/ FeaturePage("admin2")

SpecConcurrent == Init /\ [][NextConcurrent]_vars

---------------------------------------------------------------------------
(* The review workflow: one administrator on the review page, submissions  *)
(* and rate requests of other sessions arriving in between.                *)

InitReview ==
    /\ repo = << >>
    /\ nextId = 1
    /\ api = None
    /\ fp = [a \in Admins |-> FpClosed]
    /\ rp = RpClosed
    /\ cp = None
    /\ sf = None
    /\ MoreClosed

ReviewPage ==
    \/ RP_Open
    \/ RP_FetchOk
    \/ RP_FetchFail
    \/ RP_Reload
    \/ \E f \in StatusFilters : RP_SetStatusFilter(f)
    \/ \E id \in PoemIds : RP_Select(id)
    \/ RP_CloseDetails
    \/ \E id \in PoemIds : RP_CardApprove(id)
    \/ RP_Approve
    \/ RP_Reject
    \/ \E id \in PoemIds : RP_OpenRatingModal(id)
    \/ \E v \in RateInputs : RP_StarClick(v)
    \/ RP_CancelRating
    \/ RP_RatePoem
    \/ RP_ServerHandles
    \/ RP_Refetched
    \/ RP_RequestFailed

NextReview ==
    \/ Api_Submit
    \/ \E id \in PoemIds, v \in RateInputs : Api_RateAnswered(id, v)
    \/ ReviewPage

SpecReview == InitReview /\ [][NextReview]_vars

---------------------------------------------------------------------------
(* The fallback data: the review page over mockPoems, the back end being   *)
(* unavailable, so that every request fails.                               *)

\* mockPoems (ids '1'..'5'; texts are numbered after their poem).
mockPoems ==
    << [id |-> 1, approved |-> TRUE, rating |-> Some(45), status |-> ARAZ_DONE,
        arazContent |-> Some(1), featured |-> TRUE, featuredDate |-> None],
       [id |-> 2, approved |-> TRUE, rating |-> Some(42), status |-> ARAZ_PENDING,
        arazContent |-> None, featured |-> FALSE, featuredDate |-> None],
       [id |-> 3, approved |-> TRUE, rating |-> Some(38), status |-> ARAZ_DONE,
        arazContent |-> Some(3), featured |-> FALSE, featuredDate |-> None],
       [id |-> 4, approved |-> FALSE, rating |-> Some(0), status |-> ARAZ_PENDING,
        arazContent |-> None, featured |-> FALSE, featuredDate |-> None],
       [id |-> 5, approved |-> FALSE, rating |-> Some(40), status |-> ARAZ_DONE,
        arazContent |-> Some(5), featured |-> FALSE, featuredDate |-> None] >>

MockIds == {mockPoems[i].id : i \in 1..Len(mockPoems)}

InitFallback ==
    /\ repo = << >>
    /\ nextId = 1
    /\ api = None
    /\ fp = [a \in Admins |-> FpClosed]
    /\ rp = [RpClosed EXCEPT !.pc = "idle", !.poems = mockPoems, !.loading = FALSE]
    /\ cp = None
    /\ sf = None
    /\ MoreClosed

NextFallback ==
    \/ \E f \in StatusFilters : RP_SetStatusFilter(f)
    \/ RP_FetchFail
    \/ \E id \in MockIds : RP_Select(id)
    \/ RP_CloseDetails
    \/ \E id \in MockIds : RP_CardApprove(id)
    \/ RP_Approve
    \/ RP_Reject
    \/ \E id \in MockIds : RP_OpenRatingModal(id)
    \/ \E v \in ValidRatings : RP_StarClick(v)
    \/ RP_CancelRating
    \/ RP_RatePoem
    \/ RP_RequestFailed

SpecFallback == InitFallback /\ [][NextFallback]_vars

---------------------------------------------------------------------------
(* The araz workflow: one administrator on the checking page, submissions, *)
(* approvals and araz requests of other sessions arriving in between.      *)

InitChecking ==
    /\ repo = << >>
    /\ nextId = 1
    /\ api = None
    /\ fp = [a \in Admins |-> FpClosed]
    /\ rp = None
    /\ cp = CpClosed
    /\ sf = None
    /\ MoreClosed

CheckingPage ==
    \/ CP_Open
    \/ CP_FetchOk
    \/ CP_FetchFail
    \/ CP_Reload
    \/ \E id \in PoemIds : CP_OpenUpload(id)
    \/ \E text \in ArazInputs : CP_TypeAraz(text)
    \/ CP_ChooseFile
    \/ CP_CancelUpload
    \/ CP_Upload
    \/ \E id \in PoemIds : CP_ToggleStatus(id)
    \/ CP_ServerHandles
    \/ CP_StatusDone
    \/ CP_UploadDone
    \/ CP_RequestFailed

NextChecking ==
    \/ Api_Submit
    \/ \E id \in PoemIds : Api_Approve(id)
    \/ CheckingPage

SpecChecking == InitChecking /\ [][NextChecking]_vars

\* The upload of araz versions on the checking page, with araz requests of
\* other sessions arriving in between.
ApiArazTexts == {1}

UploadFlow ==
    \/ CP_Open
    \/ CP_FetchOk
    \/ CP_FetchFail
    \/ CP_Reload
    \/ \E id \in PoemIds : CP_OpenUpload(id)
    \/ \E text \in ArazInputs : CP_TypeAraz(text)
    \/ CP_ChooseFile
    \/ CP_CancelUpload
    \/ CP_Upload
    \/ CP_ServerHandles
    \/ CP_UploadDone
    \/ CP_RequestFailed

NextCorrection ==
    \/ Api_Submit
    \/ \E id \in PoemIds : Api_Approve(id)
    \/ \E id \in PoemIds, text \in ApiArazTexts : Api_Araz(id, text)
    \/ UploadFlow

SpecCorrection == InitChecking /\ [][NextCorrection]_vars

---------------------------------------------------------------------------
(* The submission form: one logged-in user on the submit page.             *)

InitSubmit ==
    /\ repo = << >>
    /\ nextId = 1
    /\ api = None
    /\ fp = [a \in Admins |-> FpClosed]
    /\ rp = None
    /\ cp = None
    /\ sf = SfInit
    /\ MoreClosed

NextSubmit ==
    \/ \E type \in PoemTypes : SP_SetPoemType(type)
    \/ \E language \in Languages : SP_SetLanguage(language)
    \/ \E verse \in Verses : SP_SelectVerse(verse)
    \/ \E method \in Methods : SP_SetMethod(method)
    \/ \E text \in Contents : SP_SetContent(text)
    \/ SP_ChooseFile
    \/ SP_ChooseAudio
    \/ SP_ResetForm
    \/ SP_Submit
    \/ SP_ServerHandles
    \/ SP_SubmitDone
    \/ SP_SubmitFailed
    \/ SP_SubmitAnother

SpecSubmit == InitSubmit /\ [][NextSubmit]_vars

---------------------------------------------------------------------------
(* The verse catalog: one administrator on the opening verses page, and    *)
(* verse requests of other sessions reaching the back end.                 *)

\* The bodies of the verse requests of the other sessions.
ApiVerseFields ==
    {[content |-> [lead |-> 0, core |-> 1, trail |-> 0],
      author |-> [lead |-> 0, core |-> 1, trail |-> 0], day |-> MinDay],
     [content |-> [lead |-> 0, core |-> 1, trail |-> 0],
      author |-> [lead |-> 0, core |-> 1, trail |-> 0], day |-> MaxDay + 1],
     [content |-> [lead |-> 1, core |-> 0, trail |-> 0],
      author |-> [lead |-> 0, core |-> 1, trail |-> 0], day |-> MinDay]}

\* A verse request of a session outside the page reaching the back end.
Api_VerseSave(id, fields) ==
    /\ id = None => catalog.next <= MaxVerses
    /\ LET out == IF id = None THEN SrvVerseCreate(catalog, fields)
                  ELSE SrvVerseUpdate(catalog, id[1], fields)
       IN  catalog' = out.catalog
    /\ UNCHANGED <<repo, nextId, api, fp, rp, cp, sf, vp, gf, vw, lb, pd, nav, others>>

InitVerses ==
    /\ repo = << >>
    /\ nextId = 1
    /\ api = None
    /\ fp = [a \in Admins |-> FpClosed]
    /\ rp = None
    /\ cp = None
    /\ sf = None
    /\ catalog = CatalogEmpty
    /\ vp = VpClosed
    /\ gf = None
    /\ vw = None
    /\ lb = None
    /\ pd = None
    /\ nav = None
    /\ bp = None /\ auth = None /\ vs = None

VersesPage ==
    \/ VP_Open
    \/ VP_FetchOk
    \/ VP_FetchFail
    \/ VP_Reload
    \/ VP_ShowAddForm
    \/ \E text \in VerseTexts : VP_SetText(text)
    \/ \E text \in VerseAuthors : VP_SetAuthor(text)
    \/ \E typed \in TypedDays : VP_SetDay(typed)
    \/ VP_Cancel
    \/ \E i \in 1..MaxVerses : VP_Edit(i)
    \/ VP_Submit
    \/ \E i \in 1..MaxVerses : VP_Delete(i)
    \/ VP_ServerHandles
    \/ VP_SaveDone
    \/ VP_DeleteDone
    \/ VP_RequestFailed

NextVerses ==
    \/ VersesPage
    \/ \E id \in {None} \cup {Some(i) : i \in 1..MaxVerses}, fields \in ApiVerseFields :
          Api_VerseSave(id, fields)

SpecVerses == InitVerses /\ [][NextVerses]_vars

---------------------------------------------------------------------------
(* The operations that can be refused: a session on the submit page, on    *)
(* the opening verses page or on the checking page, each with the requests *)
(* of the other sessions that reach the back end meanwhile.                *)

InitRejected == InitSubmit \/ InitVerses \/ InitChecking

NextRejected ==
    \/ sf # None /\ NextSubmit
    \/ vp # None /\ NextVerses
    \/ cp # None /\ NextCorrection

SpecRejected == InitRejected /\ [][NextRejected]_vars

---------------------------------------------------------------------------
(* The filter bars: a page that has fetched a list of poems, all its       *)
(* filters on 'all'.                                                       *)

InitGrid ==
    /\ repo = << >>
    /\ nextId = 1
    /\ api = None
    /\ fp = [a \in Admins |-> FpClosed]
    /\ rp = None
    /\ cp = None
    /\ sf = None
    /\ catalog = None
    /\ vp = None
    /\ gf \in {GfEffect([page |-> page, poems |-> poems, statusFilter |-> "all",
                         typeFilter |-> "all", languageFilter |-> "all",
                         filteredPoems |-> << >>]) :
                  page \in {"checking", "featured"}, poems \in GridLists}
    /\ vw = None
    /\ lb = None
    /\ pd = None
    /\ nav = None
    /\ bp = None /\ auth = None /\ vs = None

NextGrid ==
    \/ \E value \in StatusOptions : GF_SetStatusFilter(value)
    \/ \E value \in TypeOptions : GF_SetTypeFilter(value)
    \/ \E value \in LanguageOptions : GF_SetLanguageFilter(value)
    \/ \E i \in 1..MaxGrid : GF_StatusUpdated(i)

SpecGrid == InitGrid /\ [][NextGrid]_vars

---------------------------------------------------------------------------
(* The search of a user's own poems.                                       *)

InitSearch ==
    /\ repo = << >>
    /\ nextId = 1
    /\ api = None
    /\ fp = [a \in Admins |-> FpClosed]
    /\ rp = None
    /\ cp = None
    /\ sf = None
    /\ catalog = None
    /\ vp = None
    /\ gf = None
    /\ vw = VwClosed
    /\ lb = None
    /\ pd = None
    /\ nav = None
    /\ bp = None /\ auth = None /\ vs = None

NextSearch ==
    \/ VW_Open
    \/ \E response \in ApiViewLists : VW_FetchOk(response)
    \/ VW_FetchFail
    \/ VW_Reload
    \/ \E searchQuery \in SearchQueries : VW_SetSearchQuery(searchQuery)

SpecSearch == InitSearch /\ [][NextSearch]_vars

---------------------------------------------------------------------------
(* The leaderboard: a logged-in user on the leaderboard page, over a       *)
(* repository of approved and rated entries.                               *)

InitLeaderboard ==
    /\ repo \in RankedRepos
    /\ nextId = 1
    /\ api = None
    /\ fp = [a \in Admins |-> FpClosed]
    /\ rp = None
    /\ cp = None
    /\ sf = None
    /\ catalog = None
    /\ vp = None
    /\ gf = None
    /\ vw = None
    /\ lb = LbClosed
    /\ pd = None
    /\ nav = None
    /\ bp = None /\ auth = None /\ vs = None

NextLeaderboard ==
    \/ LB_Open
    \/ LB_FetchOk
    \/ LB_FetchFail
    \/ LB_Reload
    \/ \E category \in PoemTypes : LB_SelectCategory(category)

SpecLeaderboard == InitLeaderboard /\ [][NextLeaderboard]_vars

---------------------------------------------------------------------------
(* The engine workflow: entries are submitted, and administrators invoke   *)
(* the operations of the Review Workflow Engine on them.                   *)

InitEngine ==
    /\ repo = << >>
    /\ nextId = 1
    /\ api = None
    /\ fp = [a \in Admins |-> FpClosed]
    /\ rp = None
    /\ cp = None
    /\ sf = None
    /\ MoreClosed

NextEngine ==
    \/ Api_Submit
    \/ \E op \in EntryOps, id \in PoemIds :
          \E arg \in EntryArgs(op) : Eng_Entry("admin", op, id, arg)

SpecEngine == InitEngine /\ [][NextEngine]_vars

---------------------------------------------------------------------------
(* The authorization guard: a session signs in, moves between the routes   *)
(* and sends requests with its token; an administrator elsewhere approves  *)
(* entries and creates verses in between.                                  *)

InitGuard ==
    /\ repo = << >>
    /\ nextId = 1
    /\ api = None
    /\ fp = [a \in Admins |-> FpClosed]
    /\ rp = None
    /\ cp = None
    /\ sf = None
    /\ catalog = CatalogEmpty
    /\ vp = None
    /\ gf = None
    /\ vw = None
    /\ lb = None
    /\ pd = None
    /\ nav = NavInit
    /\ bp = None /\ auth = None /\ vs = None

\* The fields of the verse requests.
GuardVerseFields == {f \in ApiVerseFields : SrvVerseCheck(f) = OK}

NextGuard ==
    \/ Api_Submit
    \/ \E id \in PoemIds : Eng_Entry("admin", "approve", id, None)
    \/ \E fields \in GuardVerseFields :
          Eng_Verse("admin", "verseCreate", catalog.next, fields)
    \/ \E role \in Roles, token \in Roles : NAV_Restore(role, token)
    \/ \E role \in Roles : NAV_Login(role)
    \/ NAV_Logout
    \/ \E path \in Paths : NAV_Go(path)
    \/ /\ nav.user # None
       /\ nav.user[1].token # "admin"
       /\ \/ \E op \in EntryOps, id \in PoemIds :
                \E arg \in EntryArgs(op) :
                   Eng_Entry(nav.user[1].token, op, id, arg)
          \/ \E op \in VerseOps, id \in 1..MaxVerses, fields \in GuardVerseFields :
                Eng_Verse(nav.user[1].token, op, id, fields)

SpecGuard == InitGuard /\ [][NextGuard]_vars

---------------------------------------------------------------------------
(* The rating workflow: one administrator on the review page rating with   *)
(* the stars of the rating modal; submissions, approvals and the rate      *)
(* requests of other sessions, with values of any kind, arrive in between. *)

\* Mutant: a sixth star.
StarValues_SixStars ==
    {10 * i : i \in 1..(MaxStars + 1)} \cup {10 * i - 5 : i \in 1..(MaxStars + 1)}

\* renderInteractiveStarRating: star i gives i, its left half i - 0.5.
StarValues == {10 * i : i \in 1..MaxStars} \cup {10 * i - 5 : i \in 1..MaxStars}

\* The stars clicked: the lowest, the highest, and four and a half.
StarClicks ==
    {v \in StarValues : \/ \A w \in StarValues : v <= w
                        \/ \A w \in StarValues : v >= w
                        \/ v \in RateInputs}

\* The values of the rate requests of the other sessions: none, four and a
\* half stars, a value between two steps, a value above the scale.
RateValues == {0, 45, 47, 55}

\* The part of the review page that rates.
RatingPage ==
    \/ RP_Open
    \/ RP_FetchOk
    \/ RP_Reload
    \/ \E id \in PoemIds : RP_OpenRatingModal(id)
    \/ \E v \in StarClicks : RP_StarClick(v)
    \/ RP_CancelRating
    \/ RP_RatePoem
    \/ RP_ServerHandles
    \/ RP_Refetched
    \/ RP_RequestFailed

NextRating ==
    \/ Api_Submit
    \/ \E id \in PoemIds : Api_Approve(id)
    \/ \E id \in PoemIds, v \in RateValues : Api_Rate(id, v)
    \/ RatingPage

SpecRating == InitReview /\ [][NextRating]_vars

---------------------------------------------------------------------------
(* Failing calls: an administrator on the featured page, opening the       *)
(* details of its poems; every request of the page can fail, and other     *)
(* sessions submit, approve and reject entries in between.                 *)

\* The details cover the grid while they are shown.
DetailsPane(a) ==
    \/ \E id \in PoemIds : PD_Open(a, id)
    \/ PD_ServerHandles
    \/ PD_FetchOk
    \/ PD_FetchFail
    \/ PD_Close

NextFailure ==
    \/ Api_Submit
    \/ \E id \in PoemIds : Api_Approve(id)
    \/ \E id \in PoemIds : Api_Reject(id)
    \/ pd = None /\ FeaturePage("admin1")
    \/ DetailsPane("admin1")

SpecFailure == Init /\ [][NextFailure]_vars

---------------------------------------------------------------------------
(* The best poems: a logged-in user on the best poems page, over a         *)
(* repository of entries in several languages.                             *)

InitBest ==
    /\ \E n \in 0..MaxBest : \E es \in [1..n -> BestEntries(0)] : repo = BestRepo(es)
    /\ nextId = 1
    /\ api = None
    /\ fp = [a \in Admins |-> FpClosed]
    /\ rp = None
    /\ cp = None
    /\ sf = None
    /\ catalog = None
    /\ vp = None
    /\ gf = None
    /\ vw = None
    /\ lb = None
    /\ pd = None
    /\ nav = None
    /\ bp = BpClosed
    /\ auth = None
    /\ vs = None

NextBest ==
    \/ BP_Open
    \/ BP_FetchOk
    \/ BP_FetchFail
    \/ BP_Reload
    \/ \E key \in BestCategories : BP_SelectCategory(key)

SpecBest == InitBest /\ [][NextBest]_vars

---------------------------------------------------------------------------
(* The session: a browser loads the application, a user or an              *)
(* administrator signs in and out, follows the links, and opens the poem   *)
(* list; the token can expire at any time.                                 *)

InitSession ==
    /\ repo = << >>
    /\ nextId = 1
    /\ api = None
    /\ fp = [a \in Admins |-> FpClosed]
    /\ rp = None
    /\ cp = None
    /\ sf = None
    /\ catalog = None
    /\ vp = None
    /\ gf = None
    /\ vw = VwClosed
    /\ lb = None
    /\ pd = None
    /\ nav = None
    /\ bp = None
    /\ auth = AuthInit
    /\ vs = None

NextSession ==
    \/ \E path \in LoadPaths : AU_Load(path)
    \/ AU_Render
    \/ AU_Effects
    \/ \E role \in Roles : AU_Login(role)
    \/ AU_Logout
    \/ \E path \in LinkPaths : AU_Go(path)
    \/ AU_Expire
    \/ ViewPoemsShown /\ VW_Open
    \/ ViewPoemsShown /\ ~auth.expired /\ VW_FetchOk(<< >>)
    \/ ViewPoemsShown /\ VW_FetchFail
    \/ VW_SessionExpired

SpecSession == InitSession /\ [][NextSession]_vars

---------------------------------------------------------------------------
(* The Matla of the submit page: a logged-in user changes the language     *)
(* and picks a verse while the requests for verses are answered in any     *)
(* order.                                                                  *)

InitMatla ==
    /\ repo = << >>
    /\ nextId = 1
    /\ api = None
    /\ fp = [a \in Admins |-> FpClosed]
    /\ rp = None
    /\ cp = None
    /\ sf = None
    /\ catalog = None
    /\ vp = None
    /\ gf = None
    /\ vw = None
    /\ lb = None
    /\ pd = None
    /\ nav = None
    /\ bp = None
    /\ auth = None
    /\ vs = VsInit

NextMatla ==
    \/ \E language \in Languages : SV_SetLanguage(language)
    \/ \E request \in VerseRequests : SV_FetchOk(request)
    \/ \E request \in VerseRequests : SV_FetchFail(request)
    \/ \E id \in MatlaIds : SV_SelectVerse(id)

SpecMatla == InitMatla /\ [][NextMatla]_vars

---------------------------------------------------------------------------
(* Properties of the featured-poem workflow *)

PagePoems(a) == Range(fp[a].poems)
Featured(entries) == {e \in entries : e.featured}
RepoEntries == {repo[id] : id \in DOMAIN repo}

\* C1: at every moment at most one entry is featured, in the repository and
\* in the poems each featured page holds, whatever submit, approve, reject,
\* rate, feature and unfeature requests have been made.
C1_AtMostOneFeatured ==
    /\ Cardinality(Featured(RepoEntries)) <= 1
    /\ \A a \in Admins : Cardinality(Featured(PagePoems(a))) <= 1

\* A page that featured one poem while the repository has since moved the
\* flag to another one.
C1_Witness ==
    /\ FpReady("admin1")
    /\ \E p \in PagePoems("admin1"), q \in PagePoems("admin1") :
          /\ p.featured /\ ~q.featured
          /\ p.id \in DOMAIN repo /\ ~repo[p.id].featured
          /\ q.id \in DOMAIN repo /\ repo[q.id].featured

\* The back end has answered the feature request of session a with success.
FeatureAccepted(a) ==
    /\ fp[a].pc = "featuring"
    /\ fp[a].resp = Some(OK)

\* C2: when two administrators feature two different approved poems at the
\* same time, then once the back end has handled both requests exactly one
\* of the two poems is featured.
C2_ConcurrentFeature ==
    (/\ FeatureAccepted("admin1")
     /\ FeatureAccepted("admin2")
     /\ fp["admin1"].target[1].id # fp["admin2"].target[1].id)
    => LET x == fp["admin1"].target[1].id
           y == fp["admin2"].target[1].id
       IN  /\ x \in DOMAIN repo
           /\ y \in DOMAIN repo
           /\ repo[x].featured # repo[y].featured

\* Both requests are handled, the second administrator's poem won.
C2_Witness ==
    /\ FeatureAccepted("admin1")
    /\ FeatureAccepted("admin2")
    /\ fp["admin1"].target[1].id # fp["admin2"].target[1].id
    /\ repo[fp["admin2"].target[1].id].featured
    /\ ~repo[fp["admin1"].target[1].id].featured

\* C3: featuring b after a leaves b featured with its date set, and a (every
\* other poem) not featured with its date cleared: in the repository when
\* the request is handled, in the page's poems when the handler completes.
C3_FeatureMovesFlag ==
    [][\A a \in Admins :
         /\ (/\ fp[a].pc = "featuring"
             /\ fp[a].resp = None
             /\ fp'[a].resp = Some(OK))
            => LET b == fp[a].target[1].id
               IN  \A e \in {repo'[id] : id \in DOMAIN repo'} :
                     IF e.id = b THEN e.featured /\ e.featuredDate # None
                     ELSE ~e.featured /\ e.featuredDate = None
         /\ (/\ FeatureAccepted(a)
             /\ fp'[a].pc = "idle"
             /\ fp'[a].error = None)
            => LET b == fp[a].target[1].id
               IN  /\ \E p \in Range(fp'[a].poems) : p.id = b
                   /\ \A p \in Range(fp'[a].poems) :
                         IF p.id = b THEN p.featured /\ p.featuredDate # None
                         ELSE ~p.featured /\ p.featuredDate = None
                   /\ fp'[a].featuredPoem # None
                   /\ fp'[a].featuredPoem[1].id = b]_vars

\* The page still shows a featured (with its date) while the back end has
\* accepted the request to feature b and moved the flag.
C3_Witness ==
    /\ FeatureAccepted("admin1")
    /\ \E p \in PagePoems("admin1") :
          /\ p.featured /\ p.featuredDate # None
          /\ p.id # fp["admin1"].target[1].id
          /\ p.id \in DOMAIN repo
          /\ ~repo[p.id].featured
    /\ repo[fp["admin1"].target[1].id].featured

\* C5: every featured entry is approved, in the repository and on the
\* featured page, which offers approved poems only; a feature request was
\* accepted only for an approved entry, so that a feature request for an
\* unapproved entry leaves it not featured.
C5_FeaturedImpliesApproved ==
    /\ \A e \in RepoEntries : e.featured => e.approved
    /\ \A a \in Admins : \A p \in PagePoems(a) : p.approved
    /\ (/\ api # None
        /\ api[1].op = "feature"
        /\ api[1].status = OK
        /\ api[1].id \in DOMAIN repo)
       => repo[api[1].id].approved

\* A feature request for an unapproved entry was refused while another,
\* approved entry holds the flag and the page lists it.
C5_Witness ==
    /\ api # None
    /\ api[1].op = "feature"
    /\ api[1].status = Conflict
    /\ api[1].id \in DOMAIN repo
    /\ ~repo[api[1].id].approved
    /\ ~repo[api[1].id].featured
    /\ \E e \in RepoEntries : e.featured /\ e.approved
    /\ \E p \in PagePoems("admin1") : p.featured /\ p.approved

---------------------------------------------------------------------------
(* Properties of the review workflow *)

\* A page shows an unrated poem with a rating of 0.
Rated(e) == e.rating # None /\ e.rating[1] # 0

C6_RateUnapprovedRefused ==
    [][/\ (/\ api' # api
           /\ api'[1].op = "rate"
           /\ api'[1].id \in DOMAIN repo
           /\ ~repo[api'[1].id].approved)
          => (api'[1].status = Conflict /\ repo' = repo)
       /\ (/\ rp.pc = "rating"
           /\ rp.resp = None
           /\ rp'.resp # None
           /\ rp.req[1].id \in DOMAIN repo
           /\ ~repo[rp.req[1].id].approved)
          => (rp'.resp = Some(Conflict) /\ repo' = repo)
       /\ rp'.showRatingModal
          => (RpSelectedPoem' # None /\ RpSelectedPoem'[1].approved)]_vars

\* A rate request for an unapproved, unrated entry was refused while another
\* entry carries a rating and the page has its rating modal open on it.
C6_Witness ==
    /\ api # None
    /\ api[1].op = "rate"
    /\ api[1].status = Conflict
    /\ api[1].id \in DOMAIN repo
    /\ ~repo[api[1].id].approved
    /\ repo[api[1].id].rating = None
    /\ \E e \in RepoEntries : e.id # api[1].id /\ e.rating # None
    /\ RpRating

---------------------------------------------------------------------------
(* Properties of the araz workflow *)

CpPoems == IF cp = None THEN {} ELSE Range(cp.poems)

\* The back end accepts the status request of the checking page in this step.
StatusHandled ==
    /\ cp.pc = "updating" /\ cp.resp = None /\ cp'.resp = Some(OK)

\* handleStatusUpdate completes in this step.
StatusCompleted ==
    /\ cp.pc = "updating" /\ cp.resp = Some(OK)
    /\ cp'.pc = "idle" /\ cp'.error = None

\* The back end answers the araz request of the checking page in this step.
ArazHandled ==
    /\ cp.pc = "uploading" /\ cp.resp = None /\ cp'.resp # None

\* handleArazUpload completes in this step.
ArazCompleted ==
    /\ cp.pc = "uploading" /\ cp.resp = Some(OK)
    /\ cp'.pc = "idle" /\ cp'.error = None

\* C7 as stated: every entry with a corrected content has status
\* correction-done, in the repository and in the checking page's poems.
C7_ContentImpliesDone ==
    /\ \A e \in RepoEntries : e.arazContent # None => e.status = ARAZ_DONE
    /\ \A p \in CpPoems : p.arazContent # None => p.status = ARAZ_DONE

\* C7, amended: a step that sets or replaces an entry's corrected content
\* leaves the entry with status correction-done, and an entry that has a
\* corrected content loses the status correction-done only by a status
\* update that marks it pending and keeps the content.
C7_ContentSetWithDone ==
    [][/\ \A id \in DOMAIN repo' :
            LET new == repo'[id]
                old == IF id \in DOMAIN repo THEN repo[id] ELSE NewEntry(id)
            IN  /\ (new.arazContent # None /\ new.arazContent # old.arazContent)
                   => new.status = ARAZ_DONE
                /\ (/\ new.arazContent # None
                    /\ new.status # ARAZ_DONE
                    /\ old.status = ARAZ_DONE)
                   => (/\ StatusHandled
                       /\ cp.req[1].id = id
                       /\ cp.req[1].status = ARAZ_PENDING
                       /\ new.arazContent = old.arazContent)
       /\ (StatusCompleted \/ ArazCompleted)
          => /\ Len(cp'.poems) = Len(cp.poems)
             /\ \A i \in 1..Len(cp.poems) :
                  LET new == cp'.poems[i]
                      old == cp.poems[i]
                  IN  /\ (/\ new.arazContent # None
                          /\ ((ArazCompleted /\ new.id = cp.req[1].id)
                              \/ new.arazContent # old.arazContent))
                         => new.status = ARAZ_DONE
                      /\ (/\ new.arazContent # None
                          /\ new.status # ARAZ_DONE
                          /\ old.status = ARAZ_DONE)
                         => (/\ StatusCompleted
                             /\ cp.req[1].id = new.id
                             /\ cp.req[1].status = ARAZ_PENDING
                             /\ new.arazContent = old.arazContent)]_vars

\* The back end has marked pending an entry that has a corrected content,
\* while the page still shows it as done.
C7_Witness ==
    /\ cp.pc = "updating"
    /\ cp.resp = Some(OK)
    /\ cp.req[1].status = ARAZ_PENDING
    /\ cp.req[1].id \in DOMAIN repo
    /\ repo[cp.req[1].id].arazContent # None
    /\ repo[cp.req[1].id].status = ARAZ_PENDING
    /\ \E p \in CpPoems :
          p.id = cp.req[1].id /\ p.arazContent # None /\ p.status = ARAZ_DONE

\* C8: a status update (markPending, and the toggle the other way) changes
\* the status of its entry and nothing else: in the repository when the
\* request is handled, in the page's poems when the handler completes.
C8_StatusUpdateOnlyStatus ==
    [][/\ StatusHandled
          => /\ DOMAIN repo' = DOMAIN repo
             /\ \A id \in DOMAIN repo :
                  repo'[id] = IF id = cp.req[1].id
                              THEN [repo[id] EXCEPT !.status = cp.req[1].status]
                              ELSE repo[id]
       /\ StatusCompleted
          => /\ Len(cp'.poems) = Len(cp.poems)
             /\ \A i \in 1..Len(cp.poems) :
                  cp'.poems[i] = IF cp.poems[i].id = cp.req[1].id
                                 THEN [cp.poems[i] EXCEPT !.status = cp.req[1].status]
                                 ELSE cp.poems[i]]_vars

\* After markPending the page shows, and the repository holds, the entry
\* pending with its corrected content kept.
C8_Witness ==
    /\ CpGrid
    /\ \E p \in CpPoems :
          /\ p.arazContent # None
          /\ p.status = ARAZ_PENDING
          /\ p.approved
          /\ p.id \in DOMAIN repo
          /\ repo[p.id].arazContent = p.arazContent
          /\ repo[p.id].status = ARAZ_PENDING

\* C9: an araz request for an unapproved entry is answered with Conflict and
\* changes nothing; for an approved entry it sets the status araz_done and
\* stores the araz text, in the repository when it is handled and in the
\* page's poems when handleArazUpload completes; the page sends the request
\* only for a poem its list shows approved.
C9_RecordCorrection ==
    [][/\ (/\ api' # api
           /\ api'[1].op = "araz"
           /\ api'[1].id \in DOMAIN repo
           /\ ~repo[api'[1].id].approved)
          => (api'[1].status = Conflict /\ repo' = repo)
       /\ (ArazHandled /\ cp.req[1].id \in DOMAIN repo)
          => LET id == cp.req[1].id
             IN  IF repo[id].approved
                 THEN /\ cp'.resp = Some(OK)
                      /\ repo'[id].status = ARAZ_DONE
                      /\ cp.arazContent # 0
                         => repo'[id].arazContent = Some(cp.arazContent)
                 ELSE /\ cp'.resp = Some(Conflict)
                      /\ repo' = repo
       /\ ArazCompleted
          => \E p \in Range(cp'.poems) :
                /\ p.id = cp.req[1].id
                /\ p.status = ARAZ_DONE
                /\ p.arazContent = Some(cp.arazContent)
       /\ cp'.pc = "uploading"
          => \E p \in Range(cp'.poems) : p.id = cp'.req[1].id /\ p.approved]_vars

\* An araz request for an unapproved entry was refused and left it pending
\* without a corrected content, while the page has recorded a correction
\* for an approved entry.
C9_Witness ==
    /\ api # None
    /\ api[1].op = "araz"
    /\ api[1].status = Conflict
    /\ api[1].id \in DOMAIN repo
    /\ ~repo[api[1].id].approved
    /\ repo[api[1].id].status = ARAZ_PENDING
    /\ repo[api[1].id].arazContent = None
    /\ CpGrid
    /\ \E p \in CpPoems :
          /\ p.approved /\ p.status = ARAZ_DONE /\ p.arazContent \in {Some(t) : t \in Texts}
          /\ p.id \in DOMAIN repo
          /\ repo[p.id].status = ARAZ_DONE
          /\ repo[p.id].arazContent = p.arazContent

---------------------------------------------------------------------------
(* Properties of the submission form *)

\* handleSubmit runs in this step on a manual entry (a step of the idle form
\* that keeps the typed fields and changes the errors or starts a request).
ManualSubmitStep ==
    /\ sf.pc = "idle" /\ ~sf.submitSuccess /\ ~sf'.submitSuccess
    /\ sf.submissionMethod = Some("manual")
    /\ sf'.submissionMethod = sf.submissionMethod
    /\ sf'.content = sf.content
    /\ sf' # sf

\* C10: submitting a manual entry whose trimmed content is shorter than 20
\* characters fails with an error on the content field: no request is sent
\* and no entry is created.  With 20 characters or more (a verse being
\* selected) the submission is posted with the content as typed, Submission
\* Intake accepts it and creates the entry, and the form reports success.
C10_ManualContentLength ==
    [][/\ ManualSubmitStep
          => IF Length(Trim(sf.content)) < MinContentLength
             THEN /\ sf'.pc = "idle"
                  /\ sf'.req = None
                  /\ sf'.error # None
                  /\ \E e \in sf'.errors : e[1] = "content"
                  /\ repo' = repo
             ELSE /\ sf.inspiredByVerse # None
                  /\ sf'.pc = "submitting"
                  /\ sf'.errors = {}
                  /\ sf'.req[1].content = sf.content
                  /\ sf'.req[1].inspiredBy = sf.inspiredByVerse[1]
       /\ (/\ sf.pc = "submitting"
           /\ sf.req[1].submissionMethod = "manual"
           /\ sf.resp = None
           /\ sf'.resp # None)
          => /\ sf'.resp = Some(OK)
             /\ DOMAIN repo' = DOMAIN repo \cup {nextId}
             /\ repo'[nextId] = NewEntry(nextId)
       /\ (/\ sf.pc = "submitting"
           /\ sf.resp = Some(OK)
           /\ sf'.pc = "idle"
           /\ sf'.error = None)
          => sf'.submitSuccess]_vars

\* A manual entry of 19 characters between white space (20 or more as
\* typed) was refused with the error on the content field, after an
\* earlier one was accepted.
C10_Witness ==
    /\ sf.pc = "idle"
    /\ sf.submissionMethod = Some("manual")
    /\ sf.content.core = MinContentLength - 1
    /\ Length(sf.content) >= MinContentLength
    /\ <<"content", "Nazm is too short (minimum 20 characters)">> \in sf.errors
    /\ sf.error = Some("Please log in and complete the form")
    /\ nextId > 1

\* C11: in every state of the submission flow (type and method selection,
\* Start Over, Submit Another) a recording is chosen for an individual abyat
\* only, and so is every submission posted, and every submission accepted.
C11_RecordingOnlyIndividual ==
    /\ sf.submissionMethod = Some("recording") => sf.poemType = Some("individual")
    /\ (sf.req # None /\ sf.req[1].submissionMethod = "recording")
          => sf.req[1].type = "individual"

\* A recording was accepted, Submit Another was pressed, and the form still
\* holds the recording of an individual abyat.
C11_Witness ==
    /\ sf.pc = "idle"
    /\ ~sf.submitSuccess
    /\ sf.submissionMethod = Some("recording")
    /\ sf.poemType = Some("individual")
    /\ sf.audioFile
    /\ nextId > 1

---------------------------------------------------------------------------
(* Properties of the verse catalog *)

\* A verse as the catalog may hold it: a day of the contest, a text and an
\* attribution that are not blank.
ValidVerseFields(fields) ==
    /\ fields.day >= MinDay /\ fields.day <= MaxDay
    /\ ~Blank(fields.content)
    /\ ~Blank(fields.author)

\* C13: verse create and update reject a day outside [1,10] and a blank
\* (empty or white space only) text or attribution: the page posts no such
\* verse, the catalog refuses one and stays as it was, and every verse of the
\* catalog and of the page's list has its day in [1,10].
C13_VerseDayInRange ==
    /\ \A id \in DOMAIN catalog.verses :
          ValidVerseFields(catalog.verses[id])
    /\ \A i \in 1..Len(vp.verses) :
          vp.verses[i].day >= MinDay /\ vp.verses[i].day <= MaxDay
    /\ vp.pc = "saving" => ValidVerseFields(vp.req[1].fields)
    /\ \A fields \in ApiVerseFields \cup {VerseFields(vp.formData)} :
          ~ValidVerseFields(fields)
             => /\ SrvVerseCreate(catalog, fields).status \in {ValidationError, Conflict}
                /\ SrvVerseCreate(catalog, fields).catalog = catalog
                /\ \A id \in DOMAIN catalog.verses :
                      /\ SrvVerseUpdate(catalog, id, fields).status
                            \in {ValidationError, Conflict}
                      /\ SrvVerseUpdate(catalog, id, fields).catalog = catalog

\* The update of a stored verse to the day after the last one was refused by
\* the page, which shows the message about the day.
C13_Witness ==
    /\ vp.pc = "idle"
    /\ vp.showAddForm
    /\ vp.editingId # None
    /\ vp.editingId[1] \in DOMAIN catalog.verses
    /\ vp.formData.day = MaxDay + 1
    /\ ~FieldsMissing(vp.formData)
    /\ vp.error = Some("Day must be between 1 and 10.")

---------------------------------------------------------------------------
(* Properties of the refused operations *)

\* A submission that Submission Intake would refuse: no verse, a manual
\* content too short, no file for an upload, no audio for a recording.
InvalidSubmission(f) ==
    \/ f.inspiredByVerse = None
    \/ f.submissionMethod = Some("manual")
          /\ Length(Trim(f.content)) < MinContentLength
    \/ f.submissionMethod = Some("upload") /\ ~f.selectedFile
    \/ f.submissionMethod = Some("recording") /\ ~f.audioFile

\* C12: an operation refused for a validation or a conflict reason changes
\* nothing.  From a submit form that is incomplete no step posts a
\* submission, and pressing Submit reports the error; from a verse form with
\* a bad day or a blank text no step posts the verse, and pressing Save
\* reports the error; the checking page posts no araz for a poem it shows as
\* unapproved; the back end answers an araz for an unapproved entry with
\* Conflict.  In each case the entries and the verses stay as they were.
C12_RejectedNoMutation ==
    [][/\ (/\ sf # None
           /\ sf.pc = "idle" /\ sf.submissionMethod # None
           /\ InvalidSubmission(sf))
          => /\ sf'.pc = "idle"
             /\ sf'.req = None
             /\ repo' = repo /\ nextId' = nextId
             /\ (/\ sf' # sf
                 /\ ~sf.submitSuccess /\ ~sf'.submitSuccess
                 /\ sf'.submissionMethod = sf.submissionMethod
                 /\ sf'.content = sf.content
                 /\ sf'.selectedFile = sf.selectedFile
                 /\ sf'.audioFile = sf.audioFile)
                => /\ sf'.error = Some("Please log in and complete the form")
                   /\ sf'.errors # {}
       /\ (/\ vp # None
           /\ vp.pc = "idle" /\ vp.showAddForm
           /\ ~ValidVerseFields(VerseFields(vp.formData)))
          => /\ vp'.pc # "saving"
             /\ vp' # vp => catalog' = catalog
             /\ (/\ vp' # vp
                 /\ vp'.pc = "idle"
                 /\ vp'.showAddForm
                 /\ vp'.formData = vp.formData
                 /\ vp'.editingId = vp.editingId)
                => vp'.error \in {Some("Text and Lehen are required."),
                                  Some("Day must be between 1 and 10.")}
       /\ (/\ cp # None
           /\ cp.pc = "idle"
           /\ CpSelectedPoem # None
           /\ ~CpSelectedPoem[1].approved)
          => /\ cp'.pc # "uploading"
             /\ cp' # cp => repo' = repo
       /\ cp # None
          => \A id \in DOMAIN repo, text \in ApiArazTexts :
                ~repo[id].approved
                   => /\ SrvAraz(repo, id, Some(text)).status = Conflict
                      /\ SrvAraz(repo, id, Some(text)).repo = repo
       /\ (/\ api' # api
           /\ api' # None
           /\ api'[1].op = "araz"
           /\ api'[1].status \in {Conflict, ValidationError})
          => repo' = repo]_vars

\* An upload was submitted without a file, after an earlier submission was
\* accepted: the form shows the error on the file field and nothing is in
\* flight.
C12_Witness ==
    /\ sf # None
    /\ sf.pc = "idle"
    /\ sf.submissionMethod = Some("upload")
    /\ ~sf.selectedFile
    /\ sf.req = None
    /\ <<"file", "Please select a file to upload">> \in sf.errors
    /\ sf.error = Some("Please log in and complete the form")
    /\ nextId > 1

---------------------------------------------------------------------------
(* Properties of the filter bars *)

\* The poem satisfies every filter that is set; a filter on 'all' is absent.
MatchesFilters(poem) ==
    /\ gf.statusFilter = "all" \/ poem.status = gf.statusFilter
    /\ gf.typeFilter = "all" \/ poem.type = gf.typeFilter
    /\ gf.languageFilter = "all" \/ poem.language = gf.languageFilter

---------------------------------------------------------------------------
(* Properties of the search *)

\* The entry has a text content that contains the query, whatever the case
\* of the letters.
ContentContains(entry, searchQuery) ==
    /\ entry.content # None
    /\ Includes(ToLowerCase(entry.content[1]), ToLowerCase(searchQuery))

\* C15: with a query typed, the poems shown are exactly the entries of the
\* response whose content contains the query as a case-insensitive
\* substring; an entry whose content does not contain it, or that has no
\* text content, is not shown.
C15_SearchMatchesContent ==
    (vw.pc = "idle" /\ vw.error = None /\ vw.searchQuery # << >>)
       => \A i \in 1..Len(vw.response) :
             ContentContains(vw.response[i], vw.searchQuery)
                <=> \E k \in 1..Len(vw.filteredPoems) :
                       vw.filteredPoems[k].id = vw.response[i].id

---------------------------------------------------------------------------
(* Properties of the leaderboard *)

\* The author's entries of the kind that are approved and rated.
Qualifying(author, kind) ==
    {id \in DOMAIN repo :
        /\ repo[id].authorId = author
        /\ repo[id].type = kind
        /\ repo[id].approved
        /\ repo[id].rating # None}

RECURSIVE SumOfRatings(_)
SumOfRatings(ids) ==
    IF ids = {} THEN 0
    ELSE LET id == CHOOSE x \in ids : TRUE
         IN  repo[id].rating[1] + SumOfRatings(ids \ {id})

\* C16: the leaderboard shown for the selected kind has, for every author
\* with approved and rated entries of that kind, one row whose totalStars is
\* the sum of their ratings and whose submissionCount is their number;
\* entries that are unapproved, unrated or of the other kind add nothing,
\* and an author without such entries has no row.
C16_LeaderboardSums ==
    (lb.pc = "idle" /\ lb.error = None)
       => /\ \A author \in Authors :
                LET rows == {i \in 1..Len(lb.leaderboard) :
                                lb.leaderboard[i].authorName = author}
                    ids == Qualifying(author, lb.selectedCategory)
                IN  IF ids = {} THEN rows = {}
                    ELSE /\ Cardinality(rows) = 1
                         /\ \A i \in rows :
                               /\ lb.leaderboard[i].totalStars = SumOfRatings(ids)
                               /\ lb.leaderboard[i].submissionCount = Cardinality(ids)
          /\ \A i \in 1..Len(lb.leaderboard) : lb.leaderboard[i].authorName \in Authors

\* The leaderboard of the full works shows one author with the sum of two
\* ratings, while an entry of the other kind is rated too.
C16_Witness ==
    /\ lb.pc = "idle" /\ lb.error = None
    /\ lb.selectedCategory = "full"
    /\ Len(lb.leaderboard) = 1
    /\ lb.leaderboard[1].submissionCount = 2
    /\ lb.leaderboard[1].totalStars = 65

---------------------------------------------------------------------------
(* Properties of the engine workflow *)

\* C17: approval is monotone.  No step takes an entry that is approved and
\* still exists to unapproved, whichever operation is called; and
\* approve on an entry that is already approved leaves the repository as
\* it is.
C17_ApprovalMonotone ==
    [][/\ \A id \in DOMAIN repo \cap DOMAIN repo' :
             repo[id].approved => repo'[id].approved
       /\ \A id \in DOMAIN repo :
             repo[id].approved =>
                /\ EngineCall(repo, "admin", "approve", id, None).status = OK
                /\ EngineCall(repo, "admin", "approve", id, None).repo = repo]_vars

\* An administrator's approve was accepted for an entry that holds a rating,
\* so was approved before; the entry still is, with its rating.
C17_Witness ==
    /\ api # None
    /\ api[1].op = "approve"
    /\ api[1].role = "admin"
    /\ api[1].status = OK
    /\ api[1].id \in DOMAIN repo
    /\ repo[api[1].id].approved
    /\ repo[api[1].id].rating # None

---------------------------------------------------------------------------
(* Properties of the authorization guard *)

\* C18: every administrator-only operation checks the caller's role before
\* acting.  Called with a role other than admin, each of approve, reject,
\* rate, feature, unfeature, recordCorrection, markPending and verse
\* create / update / delete answers PermissionDenied and leaves every entry
\* and verse as it was, whatever the entry or verse named; a step that
\* answers such a caller changes nothing.  In the front end an
\* administrator route is only shown to a user whose role is admin.
C18_AdminOnlyGuarded ==
    [][/\ nav.path \in AdminPaths =>
             (nav.user # None /\ nav.user[1].role = "admin")
       /\ \A role \in Roles \ {"admin"}, op \in EntryOps, id \in PoemIds :
             \A arg \in EntryArgs(op) :
                EngineCall(repo, role, op, id, arg) =
                    [status |-> PermissionDenied, repo |-> repo]
       /\ \A role \in Roles \ {"admin"}, op \in VerseOps,
             id \in 1..MaxVerses, fields \in ApiVerseFields :
             LET out == CatalogCall(catalog, role, op, id, fields)
             IN  /\ out.status = PermissionDenied
                 /\ out.catalog = catalog
       /\ (api' # api /\ api'[1].role # "admin") =>
             /\ api'[1].op \in AdminOnly
             /\ api'[1].status = PermissionDenied
             /\ repo' = repo
             /\ catalog' = catalog]_vars

\* A session whose token resolves to the role user, admitted to an
\* administrator route on the role it read back from its storage, asked for
\* an existing entry to be rejected and was refused; the entry is still
\* there, and so is the verse of the catalog.
C18_Witness ==
    /\ nav.user # None
    /\ nav.user[1].token = "user"
    /\ nav.path \in AdminPaths
    /\ api # None
    /\ api[1].op = "reject"
    /\ api[1].role = "user"
    /\ api[1].status = PermissionDenied
    /\ api[1].id \in DOMAIN repo
    /\ catalog.verses # << >>

---------------------------------------------------------------------------
(* Properties of the rating workflow *)

\* C19: every stored rating is one of 0.5, 1.0, ..., 5.0.  A rate with a
\* value outside that set, 0 included, is refused and writes nothing; an
\* accepted rate leaves the entry with the new value in place of any rating
\* it had, and touches nothing else.  The rating modal offers exactly these
\* values and the page sends no rate request with another one.
C19_StoredRatingsValid ==
    [][/\ \A id \in DOMAIN repo' :
             repo'[id].rating # None => repo'[id].rating[1] \in ValidRatings
       /\ \A id \in PoemIds, v \in RateValues \cup StarValues :
             LET out == SrvRate(repo, id, v)
             IN  /\ v \notin ValidRatings =>
                       (out.status # OK /\ out.repo = repo)
                 /\ out.status = OK =>
                       out.repo = [repo EXCEPT ![id].rating = Some(v)]
                 /\ out.status # OK => out.repo = repo
       /\ (rp'.req # None /\ rp'.req[1].op = "rate") =>
             rp'.req[1].rating \in ValidRatings
       /\ (rp.pc = "rating" /\ rp.resp = None /\ rp'.resp = Some(OK)) =>
             repo' = [repo EXCEPT ![rp.req[1].id].rating = Some(rp.req[1].rating)]
       /\ (rp.pc = "rating" /\ rp.resp = None /\ rp'.resp # None
           /\ rp'.resp # Some(OK)) => repo' = repo]_vars

\* The page's rate request with half a star was accepted for an entry that
\* the page's list still shows with four and a half stars, its rating up to
\* then; the entry now holds half a star.
C19_Witness ==
    /\ rp.pc = "rating"
    /\ rp.resp = Some(OK)
    /\ rp.req[1].rating = 5
    /\ rp.req[1].id \in RpIds
    /\ RpPoem(rp.req[1].id).rating = Some(45)
    /\ repo[rp.req[1].id].rating = Some(5)

---------------------------------------------------------------------------
(* Properties of the failing calls *)

FpInFlight == {"fetching", "featuring", "unfeaturing"}

\* C20: a failing call ends in an error state and is not sent again by
\* itself.  When a request of the featured page or of the details ends
\* without an accepted answer, the step that ends it sets the error, clears
\* the loading flag and leaves no request behind, and sends nothing; a
\* request that ends never leaves the loading flag set; and while an error
\* is shown no request is in flight nor starts, until the page is reloaded
\* or the details are closed.
C20_FailureSurfaced ==
    [][/\ LET p == fp["admin1"]
              q == fp'["admin1"]
          IN  /\ (p.pc \in FpInFlight /\ q.pc \notin FpInFlight) =>
                    /\ ~q.loading
                    /\ q.target = None
                    /\ q.pc = "idle"
                    /\ q.error # None \/ p.pc = "fetching" \/ p.resp = Some(OK)
                    /\ q.error # None => (q.poems = p.poems /\ repo' = repo)
              /\ p.error # None =>
                    /\ p.pc = "idle" /\ ~p.loading /\ p.target = None
                    /\ q.pc \in {"idle", "closed"}
                    /\ q.pc = "idle" => q = p
       /\ (pd # None /\ pd.pc = "fetching" /\ pd' # None /\ pd'.pc # "fetching") =>
             /\ ~pd'.loading
             /\ pd'.resp = None
             /\ pd'.pc = "idle"
             /\ pd'.error # None \/ (pd.resp # None /\ pd.resp[1].status = OK)
             /\ pd'.error # None => (pd'.poem = pd.initialPoem /\ repo' = repo)
       /\ (pd # None /\ pd.pc = "fetching") =>
             (pd' # None /\ (pd'.pc = "fetching" => pd'.resp # None \/ pd' = pd))
       /\ (pd # None /\ pd.error # None) =>
             /\ pd.pc = "idle" /\ ~pd.loading
             /\ pd' = None \/ pd' = pd]_vars

\* The feature request of the page reached the back end and was carried
\* out, its answer was lost: the page shows the error, is not loading, has
\* no request left and has not touched its poems.
C20_Witness ==
    /\ fp["admin1"].error = Some("Failed to feature Nazm.")
    /\ ~fp["admin1"].loading
    /\ fp["admin1"].pc = "idle"
    /\ fp["admin1"].target = None
    /\ \E e \in RepoEntries :
          /\ e.featured
          /\ \E p \in Range(fp["admin1"].poems) : p.id = e.id /\ ~p.featured
    /\ pd = None

---------------------------------------------------------------------------
(* Properties of the payload of a submission *)

\* The part of the payload that goes with a method.
PayloadPart(method) ==
    IF method = "manual" THEN "content"
    ELSE IF method = "upload" THEN "fileRef"
    ELSE "audioRef"

\* The parts a posted request carries.
Carries(req) ==
    (IF Length(req.content) > 0 THEN {"content"} ELSE {})
    \cup (IF req.file THEN {"fileRef"} ELSE {})
    \cup (IF req.audio THEN {"audioRef"} ELSE {})

\* The parts an entry holds.
Holds(payload) ==
    (IF payload.content THEN {"content"} ELSE {})
    \cup (IF payload.fileRef THEN {"fileRef"} ELSE {})
    \cup (IF payload.audioRef THEN {"audioRef"} ELSE {})

\* Requests as any session may post them, carrying any of the parts.
AnyRequests ==
    [type : PoemTypes, language : {"English"}, submissionMethod : Methods,
     inspiredBy : Verses,
     content : {EmptyText, [lead |-> 0, core |-> MinContentLength, trail |-> 0]},
     file : BOOLEAN, audio : BOOLEAN]

\* C21: exactly one of content, fileRef and audioRef is present, the one of
\* the submission method.  The form holds at most the part of the method it
\* is on; the request it posts carries exactly that part; and the entry
\* made of an accepted request, the form's or another session's, holds
\* exactly the part of its method, which the request carried.
C21_OnePayloadPart ==
    /\ sf.submissionMethod = None =>
          (Length(sf.content) = 0 /\ ~sf.selectedFile /\ ~sf.audioFile)
    /\ sf.submissionMethod # None =>
          Carries([content |-> sf.content, file |-> sf.selectedFile,
                   audio |-> sf.audioFile])
             \subseteq {PayloadPart(sf.submissionMethod[1])}
    /\ sf.req # None =>
          /\ Carries(sf.req[1]) = {PayloadPart(sf.req[1].submissionMethod)}
          /\ sf.req[1].submissionMethod = sf.submissionMethod[1]
    /\ \A req \in AnyRequests \cup (IF sf.req = None THEN {} ELSE {sf.req[1]}) :
          SrvIntake(repo, nextId, req).status = OK =>
             /\ Holds(IntakePayload(req)) = {PayloadPart(req.submissionMethod)}
             /\ Holds(IntakePayload(req)) \subseteq Carries(req)

\* After an earlier submission was accepted, a manual entry was typed and
\* its request, carrying the text alone, was accepted in turn.
C21_Witness ==
    /\ sf.pc = "submitting"
    /\ sf.resp = Some(OK)
    /\ sf.req[1].submissionMethod = "manual"
    /\ Carries(sf.req[1]) = {"content"}
    /\ nextId > 2

---------------------------------------------------------------------------
(* Properties of the initial state of an entry *)

\* The fields of the lifecycle of an entry.
LifecycleFields == {"status", "approved", "rating", "featured", "featuredDate"}

\* Requests that name a state for the entry they ask for.
ForgedRequests ==
    {[type |-> "individual", language |-> "English",
      submissionMethod |-> method, inspiredBy |-> "v1",
      content |-> [lead |-> 0, core |-> MinContentLength, trail |-> 0],
      file |-> TRUE, audio |-> TRUE,
      status |-> ARAZ_DONE, approved |-> TRUE, rating |-> Some(50),
      featured |-> TRUE, featuredDate |-> Some(1)] : method \in Methods}

\* C22: an entry made by an accepted submit starts pending correction, not
\* approved, not rated and not featured.  The request of the form names
\* none of these fields; the step that accepts it adds one entry, in that
\* state, and changes no other; and a request that does name them is
\* answered with an entry in the same state.
C22_InitialEntryState ==
    [][/\ sf'.req # None => DOMAIN sf'.req[1] \cap LifecycleFields = {}
       /\ (sf.pc = "submitting" /\ sf.resp = None /\ sf'.resp = Some(OK)) =>
             /\ DOMAIN repo' = DOMAIN repo \cup {nextId}
             /\ nextId \notin DOMAIN repo
             /\ repo'[nextId].status = ARAZ_PENDING
             /\ ~repo'[nextId].approved
             /\ repo'[nextId].rating = None
             /\ ~repo'[nextId].featured
             /\ \A id \in DOMAIN repo : repo'[id] = repo[id]
       /\ \A req \in ForgedRequests :
             LET out == SrvIntake(repo, nextId, req)
             IN  /\ out.status = OK
                 /\ out.repo[nextId].status = ARAZ_PENDING
                 /\ ~out.repo[nextId].approved
                 /\ out.repo[nextId].rating = None
                 /\ ~out.repo[nextId].featured]_vars

\* The recording of an individual abyat was accepted, after an earlier
\* submission: both entries are pending correction, unapproved, unrated and
\* not featured.
C22_Witness ==
    /\ sf.pc = "submitting"
    /\ sf.resp = Some(OK)
    /\ sf.req[1].submissionMethod = "recording"
    /\ DOMAIN repo = {1, 2}
    /\ \A id \in DOMAIN repo :
          /\ repo[id].status = ARAZ_PENDING
          /\ ~repo[id].approved
          /\ repo[id].rating = None
          /\ ~repo[id].featured

---------------------------------------------------------------------------
(* Properties of reject *)

\* The filters a list request can carry.
ListQueries ==
    [approved : {None, Some(TRUE), Some(FALSE)},
     status : {None, Some(ARAZ_PENDING), Some(ARAZ_DONE)},
     sortBy : {"none", "rating"}]

\* The ids of the entries of a list result.
ListedIds(r, q) == {e.id : e \in Range(SrvList(r, q))}

\* What a successful reject of id makes of the repository r: the entry is
\* gone, from the repository and from every list result, and every other
\* entry is as it was, its approval included.
Rejected(r, id, after) ==
    /\ id \in DOMAIN r
    /\ DOMAIN after = DOMAIN r \ {id}
    /\ \A q \in ListQueries : id \notin ListedIds(after, q)
    /\ \A other \in DOMAIN after : after[other] = r[other]
    /\ \A other \in DOMAIN r :
          r[other].approved => other \notin DOMAIN after \/ after[other].approved

\* C23: a successful reject removes the entry and changes no other.  So it
\* is for the reject of the details of the review page: the step in which
\* the request is answered OK, and the list the page fetches afterwards; and
\* so it is for a reject of any entry, approved or not, in any state.
C23_RejectRemoves ==
    [][/\ (rp.pc = "rejecting" /\ rp.resp = None /\ rp'.resp = Some(OK)) =>
             Rejected(repo, rp.req[1].id, repo')
       /\ (rp.pc = "rejecting" /\ rp.resp = Some(OK) /\ rp'.pc = "idle"
           /\ rp'.selectedPoemId = None) =>
             rp.req[1].id \notin {rp'.poems[i].id : i \in 1..Len(rp'.poems)}
       /\ \A id \in PoemIds :
             LET out == SrvReject(repo, id)
             IN  IF id \in DOMAIN repo
                 THEN out.status = OK /\ Rejected(repo, id, out.repo)
                 ELSE out.status = NotFound /\ out.repo = repo]_vars

\* The reject of the second entry was answered OK while the first entry,
\* approved earlier from the same page, is still there and still approved.
C23_Witness ==
    /\ rp.pc = "rejecting"
    /\ rp.resp = Some(OK)
    /\ rp.req[1].id = 2
    /\ DOMAIN repo = {1}
    /\ repo[1].approved

---------------------------------------------------------------------------
(* Properties of the best poems *)

\* The approved and rated entries of a language.
RatedOf(r, language) ==
    {id \in DOMAIN r : r[id].language = language /\ r[id].approved
                       /\ r[id].rating # None}

\* C24: in the category 'Best Poems by Language' the grid shows, for every
\* language with an approved and rated poem, a poem of that language whose
\* rating is the highest of the language.
C24_BestByLanguage ==
    (bp.pc = "idle" /\ bp.error = None /\ bp.selectedCategory = "byLanguage") =>
        \A language \in BestLanguages :
            RatedOf(repo, language) # {} =>
                \E i \in 1..Len(BpShown) :
                    /\ BpShown[i].language = language
                    /\ BpShown[i].id \in RatedOf(repo, language)
                    /\ \A id \in RatedOf(repo, language) :
                          repo[id].rating[1] <= BpShown[i].rating[1]

\* With at most three approved and rated poems the category is as C24
\* describes it.
C24_BestByLanguageOfThree ==
    Cardinality(UNION {RatedOf(repo, language) : language \in BestLanguages})
        <= TopCount
    => C24_BestByLanguage

---------------------------------------------------------------------------
(* Properties of the session *)

\* C25: once the poem list was refused with 401 the stored session is
\* gone: the stored user and the stored token are removed, and no user is
\* restored, until somebody logs in again.
C25_ExpiredSessionCleared ==
    auth.sessionExpired =>
        /\ auth.storage["poetry_user"] = None
        /\ auth.storage["poetry_token"] = None
        /\ auth.user = None

\* The stored session of a user or an administrator whose token the back
\* end accepts.
ValidStoredSession(role) ==
    /\ auth.storage["poetry_user"] = Some(role)
    /\ auth.storage["poetry_token"] = Some(role)
    /\ ~auth.expired

\* C26: while the browser loads an administrator route for an administrator
\* with a valid stored session, AdminRoute decides no redirect before the
\* stored session is restored.
C26_AdminRouteAwaitsRestore ==
    (ValidStoredSession("admin") /\ auth.path \in AdminPaths /\ auth.loading)
        => auth.navigate = None

---------------------------------------------------------------------------
(* Properties of the Matla of the submit page *)

\* The verses offered are verses of the selected language.
VersesOfSelectedLanguage ==
    \A i \in 1..Len(vs.currentVerses) : vs.currentVerses[i].language = vs.language

\* C27: once every request for verses has been answered, the verses offered
\* are those of the selected language, in whatever order the answers came.
C27_VersesFollowLanguage ==
    (vs.requests = {} /\ vs.error = None) => VersesOfSelectedLanguage

\* C27, as strictly as it is worded: at every moment, requests on their way
\* or not.
C27_VersesAlwaysFollowLanguage == VersesOfSelectedLanguage

\* C27, of the verse that is selected: it is a verse of the selected
\* language.
C27_SelectedVerseOfLanguage ==
    vs.inspiredByVerse # None => vs.inspiredByVerse[1] = vs.language

---------------------------------------------------------------------------
(* Properties of the current featured poem *)

\* The current featured poem of a page goes with its list: it is null when
\* no listed poem is featured, and otherwise it is the listed poem that is
\* featured, with all its fields.
FeaturedRecordMatches(page) ==
    LET featured == {i \in 1..Len(page.poems) : page.poems[i].featured}
    IN  IF featured = {} THEN page.featuredPoem = None
        ELSE /\ page.featuredPoem # None
             /\ \A i \in featured : page.poems[i] = page.featuredPoem[1]

\* The step is the catch of handleFeaturePoem or of handleUnfeaturePoem.
PatchFails(a) ==
    /\ fp[a].pc \in {"featuring", "unfeaturing"}
    /\ fp'[a].pc = "idle"
    /\ fp'[a].error # None

\* C28: on the featured page the current featured poem is set exactly when
\* a listed poem is featured, and it is that poem: after the list was
\* fetched, after a feature and after an unfeature, whatever other sessions
\* do to the repository meanwhile; and a feature or unfeature that fails
\* leaves the list and the current featured poem as they were.
C28_FeaturedRecordInSync ==
    [][\A a \in Admins :
          /\ FeaturedRecordMatches(fp[a])
          /\ FeaturedRecordMatches(fp'[a])
          /\ PatchFails(a) =>
                /\ fp'[a].poems = fp[a].poems
                /\ fp'[a].featuredPoem = fp[a].featuredPoem]_vars

\* An unfeature of the page has failed: the page, listing two poems, still
\* lists one as featured and holds it as the current featured poem, while
\* in the repository no entry is featured.
C28_Witness ==
    /\ fp["admin1"].pc = "idle"
    /\ fp["admin1"].error = Some("Failed to unfeature Nazm.")
    /\ fp["admin1"].featuredPoem # None
    /\ \E i \in 1..Len(fp["admin1"].poems) :
          /\ fp["admin1"].poems[i].featured
          /\ fp["admin1"].poems[i] = fp["admin1"].featuredPoem[1]
    /\ \A id \in DOMAIN repo : ~repo[id].featured
    /\ Len(fp["admin1"].poems) = 2

====
